---- MODULE Spec2Model ----
(***************************************************************************)
(* The PJ-1203A converter (v5, src/unnamed/part_000): per-device private   *)
(* state, the value converters of the datapoints, the flush routines, the  *)
(* recomputation of power_ab, the sequence check of pj1203aFzDatapoints    *)
(* and the sync-time handler pj1203aIgnoreTuyaSetTime.                     *)
(*                                                                         *)
(* Units.  The converters divide the raw integers (power by 10.0, current  *)
(* by 1000.0).  The model keeps every scaled quantity as its integer       *)
(* numerator: power in tenths of a watt, current in milliamps, power       *)
(* factor in percent.  A JS null is None (the empty sequence), a value v   *)
(* is Some(v).  A record returned by a handler is a function from the keys *)
(* it contains to their values; {} is the empty function.                  *)
(***************************************************************************)
EXTENDS Integers, Sequences, FiniteSets, TLC

VARIABLES
    priv,      \* the device's private_state object
    options,   \* the device options zigbee2mqtt passes to every handler
    result,    \* the record returned by the handler of the last step
    msg,       \* the message handled by the last step
    gap,       \* whether the last step took the gap-clearing branch
    flush,     \* the flush routine the last step ran: <<kind, channel>> or <<>>
    syncs,     \* commandMcuSyncTime messages since the last datapoint message
    emitted,   \* per channel, the signed power a reader of the records saw last
    lost,      \* the channels whose pending values the last step's gap branch dropped
    prev,      \* last_seq, gap and syncs as they were before the last step
    obs        \* what the observer of the traffic has noted of the messages so far

vars == <<priv, options, result, msg, gap, flush, syncs, emitted, lost, prev, obs>>

None == <<>>
Some(v) == <<v>>
Val(o) == o[1]

Chan == {"a", "b"}
Other(x) == IF x = "a" THEN "b" ELSE "a"

\* the keys `power_${x}`, `energy_flow_${x}`, ... of a record
Keys ==
    [ power |-> [a |-> "power_a", b |-> "power_b"],
      energy_flow |-> [a |-> "energy_flow_a", b |-> "energy_flow_b"],
      timestamp |-> [a |-> "timestamp_a", b |-> "timestamp_b"],
      current |-> [a |-> "current_a", b |-> "current_b"],
      power_factor |-> [a |-> "power_factor_a", b |-> "power_factor_b"] ]
Key(f, x) == Keys[f][x]
Empty == <<>>
Put(r, k, v) == (k :> v) @@ r
Has(r, k) == k \in DOMAIN r

----------------------------------------------------------------------------
(* Bounds *)

\* commandMcuSyncTime messages handled in a row
MaxSync == 1

----------------------------------------------------------------------------
(* pj1203aGetPrivateState: the state created on first use *)

\* mutant: last_seq starts one increment below 0
PrivInitBelowZero ==
    [ sign |-> [x \in Chan |-> None],
      power |-> [x \in Chan |-> None],
      current |-> [x \in Chan |-> None],
      power_factor |-> [x \in Chan |-> None],
      timestamp |-> [x \in Chan |-> None],
      last_seq |-> -256,
      seq_inc |-> 256,
      pub_power |-> [x \in Chan |-> None],
      zero_power |-> [x \in Chan |-> None],
      zero_current |-> [x \in Chan |-> None] ]

PrivInit ==
    [ sign |-> [x \in Chan |-> None],
      power |-> [x \in Chan |-> None],
      current |-> [x \in Chan |-> None],
      power_factor |-> [x \in Chan |-> None],
      timestamp |-> [x \in Chan |-> None],
      last_seq |-> -99999,
      seq_inc |-> 256,
      pub_power |-> [x \in Chan |-> None],
      zero_power |-> [x \in Chan |-> None],
      zero_current |-> [x \in Chan |-> None] ]

\* the option getters: a missing key reads as undefined, which is falsy
pj1203aGetLateEnergyFlow(opts, x) == opts.late_energy_flow[x]
pj1203aGetSignedPower(opts, x) == opts.signed_power[x]
pj1203aGetSingleZeroRemove(opts) == opts.single_zero_remove

OptionSets ==
    [ late_energy_flow : [Chan -> BOOLEAN],
      signed_power : [Chan -> BOOLEAN],
      single_zero_remove : BOOLEAN ]

----------------------------------------------------------------------------
(* pj1203aRecomputePowerAb *)

\* mutant: the direction label is not applied
SignedOfNoDirection(r, x) == r[Key("power", x)]

\* result.power_x * (result.energy_flow_x === "producing" ? -1 : 1)
SignedOf(r, x) ==
    r[Key("power", x)] * (IF r[Key("energy_flow", x)] = "producing" THEN -1 ELSE 1)

\* Math.round(10 * pub_power_a + 10 * pub_power_b) / 10, on tenths of a watt:
\* 10 * (n / 10.0) is within rounding error of the integer n, Math.round
\* gives the integer sum back and the division scales it to watts again.
PowerAb(pa, pb) == pa + pb

\* mutant: the line of channel b reads the label of channel a
RecomputePubCopyPaste(r, p, x) ==
    IF Has(r, Key("power", x))
    THEN [p EXCEPT !.pub_power[x] =
            Some(IF x = "b" THEN r[Key("power", x)] ELSE SignedOf(r, x))]
    ELSE p

\* the two assignments of pub_power_a and pub_power_b
RecomputePub(r, p, x) ==
    IF Has(r, Key("power", x))
    THEN [p EXCEPT !.pub_power[x] = Some(SignedOf(r, x))]
    ELSE p

pj1203aRecomputePowerAb(r, p) ==
    LET modified == Has(r, "power_a") \/ Has(r, "power_b")
        q == RecomputePub(r, RecomputePub(r, p, "a"), "b")
    IN  [ priv |-> q,
          result |->
            IF modified /\ q.pub_power["a"] # None /\ q.pub_power["b"] # None
            THEN Put(r, "power_ab", PowerAb(Val(q.pub_power["a"]), Val(q.pub_power["b"])))
            ELSE r ]

----------------------------------------------------------------------------
(* The flush routines.  Each returns the record and the private state it   *)
(* leaves.                                                                 *)

\* mutant: the reset of a flush empties the buffers of both channels
ClearFieldsBothChannels(p, x) ==
    [p EXCEPT !.sign = [y \in Chan |-> None], !.power = [y \in Chan |-> None],
              !.current = [y \in Chan |-> None],
              !.power_factor = [y \in Chan |-> None]]

\* mutant: power_x is left out of the chain of assignments
ClearFieldsKeepPower(p, x) ==
    [p EXCEPT !.sign[x] = None, !.current[x] = None, !.power_factor[x] = None]

\* priv[sign_x] = priv[power_x] = priv[current_x] = priv[power_factor_x] = null
ClearFields(p, x) ==
    [p EXCEPT !.sign[x] = None, !.power[x] = None,
              !.current[x] = None, !.power_factor[x] = None]

\* mutant: signed mode publishes the magnitude
CompleteRecordMagnitude(r, x, p, opts) ==
    LET s == Val(p.sign[x])
        pw == Val(p.power[x])
        r1 == IF pj1203aGetSignedPower(opts, x)
              THEN Put(Put(r, Key("power", x), pw), Key("energy_flow", x), "sign")
              ELSE Put(Put(r, Key("power", x), pw), Key("energy_flow", x),
                       IF s > 0 THEN "consuming" ELSE "producing")
        r2 == Put(r1, Key("timestamp", x), p.timestamp[x])
        r3 == Put(r2, Key("current", x), Val(p.current[x]))
    IN  Put(r3, Key("power_factor", x), Val(p.power_factor[x]))

\* the record of a complete set, before power_ab is recomputed
CompleteRecord(r, x, p, opts) ==
    LET s == Val(p.sign[x])
        pw == Val(p.power[x])
        r1 == IF pj1203aGetSignedPower(opts, x)
              THEN Put(Put(r, Key("power", x), s * pw), Key("energy_flow", x), "sign")
              ELSE Put(Put(r, Key("power", x), pw), Key("energy_flow", x),
                       IF s > 0 THEN "consuming" ELSE "producing")
        r2 == Put(r1, Key("timestamp", x), p.timestamp[x])
        r3 == Put(r2, Key("current", x), Val(p.current[x]))
    IN  Put(r3, Key("power_factor", x), Val(p.power_factor[x]))

IsComplete(p, x) ==
    /\ p.sign[x] # None
    /\ p.power[x] # None
    /\ p.current[x] # None
    /\ p.power_factor[x] # None

\* mutant: an incomplete set publishes the fields it has
pj1203aFlushAllPartial(r, x, p, opts) ==
    IF IsComplete(p, x)
    THEN LET f == pj1203aRecomputePowerAb(CompleteRecord(r, x, p, opts), ClearFields(p, x))
         IN  [priv |-> f.priv, result |-> f.result, ok |-> TRUE]
    ELSE [priv |-> ClearFields(p, x),
          result |-> IF p.current[x] # None
                     THEN Put(r, Key("current", x), Val(p.current[x])) ELSE r,
          ok |-> FALSE]

\* returns true after a complete set was published, false otherwise
pj1203aFlushAll(r, x, p, opts) ==
    IF IsComplete(p, x)
    THEN LET f == pj1203aRecomputePowerAb(CompleteRecord(r, x, p, opts), ClearFields(p, x))
         IN  [priv |-> f.priv, result |-> f.result, ok |-> TRUE]
    ELSE [priv |-> ClearFields(p, x), result |-> r, ok |-> FALSE]

\* mutant: the buffered direction is kept when there is one
pj1203aFlushZeroKeepSign(r, x, p, opts, now) ==
    pj1203aFlushAll(r, x,
        [p EXCEPT !.sign[x] = IF p.sign[x] = None THEN Some(1) ELSE p.sign[x],
                  !.power[x] = Some(0),
                  !.timestamp[x] = Some(now), !.current[x] = Some(0),
                  !.power_factor[x] = Some(100)],
        opts)

\* mutant: the zero snapshot keeps the timestamp that is buffered
pj1203aFlushZeroOldTimestamp(r, x, p, opts, now) ==
    pj1203aFlushAll(r, x,
        [p EXCEPT !.sign[x] = Some(1), !.power[x] = Some(0),
                  !.current[x] = Some(0), !.power_factor[x] = Some(100)],
        opts)

pj1203aFlushZero(r, x, p, opts, now) ==
    pj1203aFlushAll(r, x,
        [p EXCEPT !.sign[x] = Some(1), !.power[x] = Some(0),
                  !.timestamp[x] = Some(now), !.current[x] = Some(0),
                  !.power_factor[x] = Some(100)],
        opts)

pj1203aFlushNull(r, x, p, opts, now) ==
    pj1203aFlushAll(r, x, [ClearFields(p, x) EXCEPT !.timestamp[x] = Some(now)], opts)

----------------------------------------------------------------------------
(* pj1203aValueConverters: the `from` of each datapoint converter.  Each   *)
(* returns the record, the private state it leaves and, for the record of  *)
(* the step, the flush routine it ran (ran) on which channel (x) and what  *)
(* pj1203aFlushAll returned (ok).                                          *)

\* JS truthiness of a zero flag: null and false are falsy
Truthy(o) == o = Some(TRUE)

NoFlush(p) == [priv |-> p, result |-> Empty, ran |-> "none", x |-> "-", ok |-> FALSE]
Ran(kind, x, f) == [priv |-> f.priv, result |-> f.result, ran |-> kind, x |-> x, ok |-> f.ok]

\* mutant: a direction already buffered is not overwritten
energy_flow_keeps_first(x, v, p, opts, now) ==
    LET p1 == IF p.sign[x] = None
              THEN [p EXCEPT !.sign[x] = Some(IF v = 1 THEN -1 ELSE 1)]
              ELSE p
    IN  IF pj1203aGetLateEnergyFlow(opts, x)
        THEN Ran("all", x, pj1203aFlushAll(Empty, x, p1, opts))
        ELSE NoFlush(p1)

energy_flow_from(x, v, p, opts, now) ==
    LET p1 == [p EXCEPT !.sign[x] = Some(IF v = 1 THEN -1 ELSE 1)]
    IN  IF pj1203aGetLateEnergyFlow(opts, x)
        THEN Ran("all", x, pj1203aFlushAll(Empty, x, p1, opts))
        ELSE NoFlush(p1)

\* mutant: a non-zero reading leaves the zero flag as it is
power_never_rearms(x, v, p, opts, now) ==
    LET p1 == [p EXCEPT !.power[x] = Some(v), !.timestamp[x] = Some(now)]
    IN  IF v = 0
        THEN LET f == IF pj1203aGetSingleZeroRemove(opts) /\ ~Truthy(p1.zero_power[x])
                      THEN Ran("null", x, pj1203aFlushNull(Empty, x, p1, opts, now))
                      ELSE Ran("zero", x, pj1203aFlushZero(Empty, x, p1, opts, now))
             IN  [f EXCEPT !.priv.zero_power[x] = Some(TRUE)]
        ELSE NoFlush(p1)

\* mutant: signed mode applies the buffered direction when the reading arrives
power_signed_on_arrival(x, v, p, opts, now) ==
    LET w == IF pj1203aGetSignedPower(opts, x) /\ p.sign[x] # None
             THEN Val(p.sign[x]) * v ELSE v
        p1 == [p EXCEPT !.power[x] = Some(w), !.timestamp[x] = Some(now)]
    IN  IF v = 0
        THEN LET f == IF pj1203aGetSingleZeroRemove(opts) /\ ~Truthy(p1.zero_power[x])
                      THEN Ran("null", x, pj1203aFlushNull(Empty, x, p1, opts, now))
                      ELSE Ran("zero", x, pj1203aFlushZero(Empty, x, p1, opts, now))
             IN  [f EXCEPT !.priv.zero_power[x] = Some(TRUE)]
        ELSE NoFlush([p1 EXCEPT !.zero_power[x] = Some(FALSE)])

power_from(x, v, p, opts, now) ==
    LET p1 == [p EXCEPT !.power[x] = Some(v), !.timestamp[x] = Some(now)]
    IN  IF v = 0
        THEN LET f == IF pj1203aGetSingleZeroRemove(opts) /\ ~Truthy(p1.zero_power[x])
                      THEN Ran("null", x, pj1203aFlushNull(Empty, x, p1, opts, now))
                      ELSE Ran("zero", x, pj1203aFlushZero(Empty, x, p1, opts, now))
             IN  [f EXCEPT !.priv.zero_power[x] = Some(TRUE)]
        ELSE NoFlush([p1 EXCEPT !.zero_power[x] = Some(FALSE)])

\* mutant: the current readings share the zero flag of the power readings
current_shares_power_flag(x, v, p, opts, now) ==
    LET p1 == [p EXCEPT !.current[x] = Some(v)]
    IN  IF v = 0
        THEN LET f == IF pj1203aGetSingleZeroRemove(opts) /\ ~Truthy(p1.zero_power[x])
                      THEN Ran("null", x, pj1203aFlushNull(Empty, x, p1, opts, now))
                      ELSE Ran("zero", x, pj1203aFlushZero(Empty, x, p1, opts, now))
             IN  [f EXCEPT !.priv.zero_power[x] = Some(TRUE)]
        ELSE NoFlush([p1 EXCEPT !.zero_power[x] = Some(FALSE)])

current_from(x, v, p, opts, now) ==
    LET p1 == [p EXCEPT !.current[x] = Some(v)]
    IN  IF v = 0
        THEN LET f == IF pj1203aGetSingleZeroRemove(opts) /\ ~Truthy(p1.zero_current[x])
                      THEN Ran("null", x, pj1203aFlushNull(Empty, x, p1, opts, now))
                      ELSE Ran("zero", x, pj1203aFlushZero(Empty, x, p1, opts, now))
             IN  [f EXCEPT !.priv.zero_current[x] = Some(TRUE)]
        ELSE NoFlush([p1 EXCEPT !.zero_current[x] = Some(FALSE)])

\* mutant: power_factor_x triggers the flush whatever late_energy_flow_x is
power_factor_always_flushes(x, v, p, opts, now) ==
    Ran("all", x, pj1203aFlushAll(Empty, x, [p EXCEPT !.power_factor[x] = Some(v)], opts))

power_factor_from(x, v, p, opts, now) ==
    LET p1 == [p EXCEPT !.power_factor[x] = Some(v)]
    IN  IF ~pj1203aGetLateEnergyFlow(opts, x)
        THEN Ran("all", x, pj1203aFlushAll(Empty, x, p1, opts))
        ELSE NoFlush(p1)

\* mutant: the converter returns the device's total under its name
power_ab_published(v, p, opts, now) ==
    [NoFlush(p) EXCEPT !.result = Put(Empty, "power_ab", v)]

\* the device's own power_ab datapoint is discarded
power_ab_from(v, p, opts, now) == NoFlush(p)

----------------------------------------------------------------------------
(* meta.tuyaDatapoints and the dispatch of tuya's fz.datapoints: the       *)
(* message's datapoint is looked up in the table; an entry with a name     *)
(* gives {name: converted value}, an entry without a name merges the       *)
(* record its converter returns.                                           *)

DpPower == [a |-> 101, b |-> 105]
DpCurrent == [a |-> 113, b |-> 114]
DpPowerFactor == [a |-> 110, b |-> 121]
DpEnergyFlow == [a |-> 102, b |-> 104]
DpPowerAb == 115
DpVoltage == 112

Field(dp) ==
    CASE dp \in {DpPower[x] : x \in Chan} -> "power"
      [] dp \in {DpCurrent[x] : x \in Chan} -> "current"
      [] dp \in {DpPowerFactor[x] : x \in Chan} -> "power_factor"
      [] dp \in {DpEnergyFlow[x] : x \in Chan} -> "energy_flow"
      [] dp = DpPowerAb -> "power_ab"
      [] OTHER -> "voltage"

ChanOf(dp) ==
    IF dp \in {DpPower.a, DpCurrent.a, DpPowerFactor.a, DpEnergyFlow.a} THEN "a"
    ELSE IF dp \in {DpPower.b, DpCurrent.b, DpPowerFactor.b, DpEnergyFlow.b} THEN "b"
    ELSE "-"

ChannelDps == {DpPower[x] : x \in Chan} \cup {DpCurrent[x] : x \in Chan}
              \cup {DpPowerFactor[x] : x \in Chan} \cup {DpEnergyFlow[x] : x \in Chan}
DpIds == ChannelDps \cup {DpPowerAb, DpVoltage}

tuyaDatapoints(dp, v, p, opts, now) ==
    CASE Field(dp) = "power" -> power_from(ChanOf(dp), v, p, opts, now)
      [] Field(dp) = "current" -> current_from(ChanOf(dp), v, p, opts, now)
      [] Field(dp) = "power_factor" -> power_factor_from(ChanOf(dp), v, p, opts, now)
      [] Field(dp) = "energy_flow" -> energy_flow_from(ChanOf(dp), v, p, opts, now)
      [] Field(dp) = "power_ab" -> power_ab_from(v, p, opts, now)
      [] OTHER -> [NoFlush(p) EXCEPT !.result = Put(Empty, "voltage", v)]

----------------------------------------------------------------------------
(* The sequence check of pj1203aFzDatapoints.convert *)

\* a & b on non-negative integers, bit by bit
RECURSIVE BitAnd(_, _)
BitAnd(a, b) ==
    IF a = 0 \/ b = 0 THEN 0
    ELSE (a % 2) * (b % 2) + 2 * BitAnd(a \div 2, b \div 2)

\* mutant: the mask is left out
NoMask(n) == n

\* n & 0xffff on a 32-bit two's complement n: the bits of a negative n are
\* those of ~(-n - 1)
And0xffff(n) ==
    IF n >= 0 THEN BitAnd(n, 65535) ELSE 65535 - BitAnd(-n - 1, 65535)

ExpectedSeq(p) == And0xffff(p.last_seq + p.seq_inc)

IsGap(p, seq) == seq # ExpectedSeq(p) /\ seq # p.last_seq

\* mutant: the lines of channel b are left out
GapClearOnlyA(p) ==
    [p EXCEPT !.sign["a"] = None, !.power["a"] = None,
              !.current["a"] = None, !.power_factor["a"] = None,
              !.zero_power["a"] = None, !.zero_current["a"] = None]

\* mutant: the last published powers are cleared with the pending fields
GapClearPublished(p) ==
    [p EXCEPT !.sign = [x \in Chan |-> None],
              !.power = [x \in Chan |-> None],
              !.current = [x \in Chan |-> None],
              !.power_factor = [x \in Chan |-> None],
              !.pub_power = [x \in Chan |-> None],
              !.zero_power = [x \in Chan |-> None],
              !.zero_current = [x \in Chan |-> None]]

\* Clear all pending attributes
GapClear(p) ==
    [p EXCEPT !.sign = [x \in Chan |-> None],
              !.power = [x \in Chan |-> None],
              !.current = [x \in Chan |-> None],
              !.power_factor = [x \in Chan |-> None],
              !.zero_power = [x \in Chan |-> None],
              !.zero_current = [x \in Chan |-> None]]

\* mutant: last_seq follows the in-order messages only
SeqCheckKeepOnGap(p, seq) ==
    LET g == IsGap(p, seq)
    IN  [gap |-> g, priv |-> IF g THEN GapClear(p) ELSE [p EXCEPT !.last_seq = seq]]

\* the sequence check and the update of last_seq: whether the gap branch
\* was taken, and the private state handed to tuya's fz.datapoints
SeqCheck(p, seq) ==
    LET g == IsGap(p, seq)
    IN  [gap |-> g, priv |-> [(IF g THEN GapClear(p) ELSE p) EXCEPT !.last_seq = seq]]

----------------------------------------------------------------------------
(* The state after construction and the handlers *)

\* the channels with a pending field or zero flag
Pending(p) ==
    {x \in Chan :
        \/ p.sign[x] # None \/ p.power[x] # None
        \/ p.current[x] # None \/ p.power_factor[x] # None
        \/ p.zero_power[x] # None \/ p.zero_current[x] # None}

Before == [seq |-> priv.last_seq, gap |-> gap, syncs |-> syncs]

NoMsg == [type |-> "none", dp |-> 0, v |-> 0, seq |-> 0]
NoRun == [ran |-> "none", x |-> "-", ok |-> FALSE]

\* what a reader of the records takes the signed power of channel x to be
ReaderSigned(r, x) ==
    IF r[Key("energy_flow", x)] = "producing" THEN 0 - r[Key("power", x)]
    ELSE r[Key("power", x)]

Seen(r, e) ==
    [x \in Chan |-> IF Has(r, Key("power", x)) THEN Some(ReaderSigned(r, x)) ELSE e[x]]

\* The observer of a run notes, of the messages delivered so far, what a
\* traffic profile asks it to watch:
\*   "buffer": sign, the directions buffered when the last message arrived,
\*             and arrived, per channel the value of signed_power_x when
\*             the last power reading arrived;
\*   "zeros":  run, per channel the zero power readings since the last
\*             non-zero one (2 stands for two or more), and clean, the same
\*             count started again at every message the check takes for a gap;
\*   "clock":  wrote, per channel the instant of the last message that made
\*             the converter write a power reading: a power datapoint, or a
\*             current datapoint of 0;
\*   "cycle":  cycle, per channel how far the messages of the channel have
\*             got through energy_flow, non-zero current, non-zero power,
\*             power_factor in this order (at 0..4, with the values they
\*             carried) with late_energy_flow_x off at the first and the
\*             last and no message after the first taken for a gap; the
\*             message after the fourth starts again;
\*   "late":   got, per channel the non-zero current, power and power
\*             factor delivered since the last energy_flow message of the
\*             channel and since the last message taken for a gap, and owed, at an
\*             energy_flow message that is no gap and finds
\*             late_energy_flow_x on, the three values got if all three are
\*             there; a power or current reading of 0 is of another cycle:
\*             it makes the observer forget the values only when the three
\*             are not all there yet; left and due, the same with the
\*             values forgotten at every power or current reading of 0;
\*   "rest":   rest, per channel whether the last current reading and the
\*             last power reading since the last gap were other than 0 (or
\*             there was none), and at, how far the messages of the channel
\*             have got, from a state where both were so, through cycles of
\*             current 0, power 0, power factor 100 with single_zero_remove
\*             on and no gap: 1, 2, 3 in the first cycle, 4, 5, 6 in every
\*             later one;
\*   "twin":   twin, the private state and the last record of a second v1
\*             converter that started in the same state and is handed the
\*             same messages under the same options, but for
\*             missing_message_detection, which it has the other way round
\*             (None until the first message).
NoCycle == [at |-> 0, energy_flow |-> 0, current |-> 0, power |-> 0, power_factor |-> 0]

Cycle(c, opts, dp, v, g) ==
    [x \in Chan |->
       LET f == Field(dp)
           mine == ChanOf(dp) = x
           late == pj1203aGetLateEnergyFlow(opts, x)
       IN  IF mine /\ f = "energy_flow"
           THEN IF late THEN NoCycle ELSE [NoCycle EXCEPT !.at = 1, !.energy_flow = v]
           ELSE IF g \/ c[x].at = 4 THEN NoCycle
           ELSE IF ~mine THEN c[x]
           ELSE IF f = "current" /\ v # 0 /\ c[x].at = 1
                THEN [c[x] EXCEPT !.at = 2, !.current = v]
           ELSE IF f = "power" /\ v # 0 /\ c[x].at = 2
                THEN [c[x] EXCEPT !.at = 3, !.power = v]
           ELSE IF f = "power_factor" /\ c[x].at = 3 /\ ~late
                THEN [c[x] EXCEPT !.at = 4, !.power_factor = v]
           ELSE NoCycle]

NoneGot == [current |-> None, power |-> None, power_factor |-> None]

\* the values noted of channel x after the message; zeros tells whether a
\* reading of 0 makes the observer forget three values that are all there
Got(c, dp, v, g, zeros) ==
    [x \in Chan |->
       LET f == Field(dp)
           was == c[x]
       IN  IF g THEN NoneGot
           ELSE IF ChanOf(dp) # x THEN was
           ELSE IF f = "energy_flow" THEN NoneGot
           ELSE IF f = "power_factor" THEN [was EXCEPT !.power_factor = Some(v)]
           ELSE IF v # 0 THEN [was EXCEPT ![f] = Some(v)]
           ELSE IF zeros \/ \E k \in DOMAIN was : was[k] = None THEN NoneGot
           ELSE was]

\* what the energy_flow message of a channel finds noted, all three there
Owed(c, opts, dp, v, g) ==
    [x \in Chan |->
       IF /\ ChanOf(dp) = x /\ Field(dp) = "energy_flow" /\ ~g
          /\ pj1203aGetLateEnergyFlow(opts, x)
          /\ c[x].current # None /\ c[x].power # None /\ c[x].power_factor # None
       THEN Some(c[x])
       ELSE None]

NoRest == [current |-> TRUE, power |-> TRUE, at |-> 0]

Rest(c, opts, dp, v, g) ==
    [x \in Chan |->
       LET f == Field(dp)
           was == IF g THEN NoRest ELSE c[x]
           on == pj1203aGetSingleZeroRemove(opts) /\ ~g
           zero == f \in {"current", "power"} /\ v = 0
           at == CASE ~on -> 0
                   [] was.at = 0 /\ f = "current" /\ zero /\ was.current /\ was.power -> 1
                   [] was.at \in {1, 4} /\ f = "power" /\ zero -> was.at + 1
                   [] was.at \in {2, 5} /\ f = "power_factor" /\ v = 100 -> was.at + 1
                   [] was.at \in {3, 6} /\ f = "current" /\ zero -> 4
                   [] OTHER -> 0
       IN  IF ChanOf(dp) # x THEN was
           ELSE [current |-> IF f = "current" THEN v # 0 ELSE was.current,
                 power |-> IF f = "power" THEN v # 0 ELSE was.power,
                 at |-> at]]

NoObs ==
    [ sign |-> [x \in Chan |-> None],
      arrived |-> [x \in Chan |-> None],
      run |-> [x \in Chan |-> 0],
      clean |-> [x \in Chan |-> 0],
      wrote |-> [x \in Chan |-> None],
      cycle |-> [x \in Chan |-> NoCycle],
      got |-> [x \in Chan |-> NoneGot],
      owed |-> [x \in Chan |-> None],
      left |-> [x \in Chan |-> NoneGot],
      due |-> [x \in Chan |-> None],
      rest |-> [x \in Chan |-> NoRest],
      twin |-> None ]

Wrote(w, dp, v, now) ==
    IF Field(dp) = "power" \/ (Field(dp) = "current" /\ v = 0)
    THEN [w EXCEPT ![ChanOf(dp)] = Some(now)]
    ELSE w

Count(c, dp, v) ==
    IF Field(dp) = "power"
    THEN [c EXCEPT ![ChanOf(dp)] = IF v = 0 THEN (IF c[ChanOf(dp)] = 0 THEN 1 ELSE 2) ELSE 0]
    ELSE c

Observe(W, o, p, opts, dp, v, g, now) ==
    [ sign |-> IF "buffer" \in W THEN p.sign ELSE o.sign,
      arrived |-> IF "buffer" \in W /\ Field(dp) = "power"
                  THEN [o.arrived EXCEPT ![ChanOf(dp)] = Some(opts.signed_power[ChanOf(dp)])]
                  ELSE o.arrived,
      run |-> IF "zeros" \in W THEN Count(o.run, dp, v) ELSE o.run,
      clean |-> IF "zeros" \in W
                THEN Count(IF g THEN NoObs.clean ELSE o.clean, dp, v)
                ELSE o.clean,
      wrote |-> IF "clock" \in W THEN Wrote(o.wrote, dp, v, now) ELSE o.wrote,
      cycle |-> IF "cycle" \in W THEN Cycle(o.cycle, opts, dp, v, g) ELSE o.cycle,
      got |-> IF "late" \in W THEN Got(o.got, dp, v, g, FALSE) ELSE o.got,
      owed |-> IF "late" \in W THEN Owed(o.got, opts, dp, v, g) ELSE o.owed,
      left |-> IF "late" \in W THEN Got(o.left, dp, v, g, TRUE) ELSE o.left,
      due |-> IF "late" \in W THEN Owed(o.left, opts, dp, v, g) ELSE o.due,
      rest |-> IF "rest" \in W THEN Rest(o.rest, opts, dp, v, g) ELSE o.rest,
      twin |-> o.twin ]

----------------------------------------------------------------------------
(* Traffic.  A traffic profile names the messages the device and the       *)
(* network deliver in a run: the datapoints with their raw values, the     *)
(* sequence numbers, the instants of the clock and the option settings     *)
(* the user moves between.  Every specification below runs the same        *)
(* handlers; it differs from the others in its traffic alone.              *)

AllFalse ==
    [ late_energy_flow |-> [x \in Chan |-> FALSE],
      signed_power |-> [x \in Chan |-> FALSE],
      single_zero_remove |-> FALSE ]

\* the messages of one channel: every datapoint of channel a, power and
\* current also 0, both directions; the user switches late_energy_flow_a
\* and single_zero_remove
TrafficA ==
    [ raw |-> [dp \in DpIds |->
                 CASE dp = DpEnergyFlow.a -> {0, 1}
                   [] dp = DpCurrent.a -> {0, 1500}
                   [] dp = DpPower.a -> {0, 798}
                   [] dp = DpPowerFactor.a -> {87}
                   [] OTHER -> {}],
      seqs |-> {0, 256},
      times |-> {1},
      watch |-> {},
      opts |-> {o \in OptionSets :
                  /\ o.signed_power = AllFalse.signed_power
                  /\ ~o.late_energy_flow["b"]} ]

\* the messages of both channels: channel a consumes or is at rest,
\* channel b produces; the user switches signed_power_b
TrafficAB ==
    [ raw |-> [dp \in DpIds |->
                 CASE dp = DpEnergyFlow.a -> {0}
                   [] dp = DpCurrent.a -> {1500}
                   [] dp = DpPower.a -> {0, 798}
                   [] dp = DpPowerFactor.a -> {87}
                   [] dp = DpEnergyFlow.b -> {1}
                   [] dp = DpCurrent.b -> {1500}
                   [] dp = DpPower.b -> {371}
                   [] dp = DpPowerFactor.b -> {87}
                   [] dp = DpVoltage -> {2301}
                   [] OTHER -> {}],
      seqs |-> {0, 256},
      times |-> {1},
      watch |-> {},
      opts |-> {o \in OptionSets :
                  /\ o.late_energy_flow = AllFalse.late_energy_flow
                  /\ ~o.single_zero_remove
                  /\ ~o.signed_power["a"]} ]

\* the sequence counter: a few pending fields on both channels, the
\* counter around 0 and around its wrap at 65536, 31329 which is
\* (-99999 + 256) & 0xffff, and sync-time messages in between
TrafficSeq ==
    [ raw |-> [dp \in DpIds |->
                 CASE dp = DpEnergyFlow.a -> {1}
                   [] dp = DpPower.b -> {371}
                   [] dp = DpVoltage -> {2301}
                   [] OTHER -> {}],
      seqs |-> {0, 256, 512, 65024, 65280, 31329},
      times |-> {1},
      watch |-> {},
      opts |-> {AllFalse} ]

\* the direction of one channel: the three fields of channel a with a
\* non-zero reading, the direction codes 0 and 1 and a code the device
\* does not document; the user switches signed_power_a and
\* late_energy_flow_a
TrafficSigned ==
    [ raw |-> [dp \in DpIds |->
                 CASE dp = DpEnergyFlow.a -> {0, 1, 2}
                   [] dp = DpCurrent.a -> {1500}
                   [] dp = DpPower.a -> {150}
                   [] dp = DpPowerFactor.a -> {87}
                   [] OTHER -> {}],
      seqs |-> {0, 256},
      times |-> {1},
      watch |-> {"buffer"},
      opts |-> {o \in OptionSets :
                  /\ ~o.single_zero_remove
                  /\ ~o.signed_power["b"]
                  /\ ~o.late_energy_flow["b"]} ]

\* the flush trigger of both channels: channel a flows, channel b is at
\* rest but for a stray power reading (its current reads 0); the user
\* switches which of the two channels waits for its late energy_flow
TrafficLate ==
    [ raw |-> [dp \in DpIds |->
                 CASE dp = DpEnergyFlow.a -> {0}
                   [] dp = DpCurrent.a -> {1500}
                   [] dp = DpPower.a -> {798}
                   [] dp = DpPowerFactor.a -> {87}
                   [] dp = DpEnergyFlow.b -> {1}
                   [] dp = DpCurrent.b -> {0}
                   [] dp = DpPower.b -> {371}
                   [] dp = DpPowerFactor.b -> {87}
                   [] OTHER -> {}],
      seqs |-> {0, 256},
      times |-> {1},
      watch |-> {},
      opts |-> {o \in OptionSets :
                  /\ o.signed_power = AllFalse.signed_power
                  /\ ~o.single_zero_remove
                  /\ o.late_energy_flow["a"] # o.late_energy_flow["b"]} ]

\* the device's own total: channel a at rest (a power reading of 0 emits
\* its record at once), every field of channel b, and datapoint 115 with
\* two values that are not the sum of anything published
TrafficTotal ==
    [ raw |-> [dp \in DpIds |->
                 CASE dp = DpPower.a -> {0}
                   [] dp = DpEnergyFlow.b -> {1}
                   [] dp = DpCurrent.b -> {1500}
                   [] dp = DpPower.b -> {371}
                   [] dp = DpPowerFactor.b -> {87}
                   [] dp = DpPowerAb -> {5, 999}
                   [] OTHER -> {}],
      seqs |-> {0, 256},
      times |-> {1},
      watch |-> {},
      opts |-> {AllFalse} ]

\* runs of zero readings on one channel: every field of channel a, power
\* and current also 0; the user switches single_zero_remove
TrafficZero ==
    [ raw |-> [dp \in DpIds |->
                 CASE dp = DpEnergyFlow.a -> {0}
                   [] dp = DpCurrent.a -> {0, 1500}
                   [] dp = DpPower.a -> {0, 798}
                   [] dp = DpPowerFactor.a -> {87}
                   [] OTHER -> {}],
      seqs |-> {0, 256},
      times |-> {1},
      watch |-> {"zeros"},
      opts |-> {o \in OptionSets :
                  /\ o.signed_power = AllFalse.signed_power
                  /\ o.late_energy_flow = AllFalse.late_energy_flow} ]

Init(E) ==
    /\ priv = PrivInit
    /\ options \in E.opts
    /\ result = Empty
    /\ msg = NoMsg
    /\ gap = FALSE
    /\ flush = NoRun
    /\ syncs = 0
    /\ emitted = [x \in Chan |-> None]
    /\ lost = {}
    /\ prev = [seq |-> PrivInit.last_seq, gap |-> FALSE, syncs |-> 0]
    /\ obs = NoObs

\* pj1203aFzDatapoints.convert on a message carrying datapoint dp: chk is
\* what the sequence check, SeqCheck(priv, seq), leaves
FzDatapoints(dp, v, seq, now, chk) ==
    LET out == tuyaDatapoints(dp, v, chk.priv, options, now)
    IN  /\ priv' = out.priv
        /\ result' = out.result
        /\ msg' = [type |-> "datapoint", dp |-> dp, v |-> v, seq |-> seq]
        /\ gap' = chk.gap
        /\ flush' = [ran |-> out.ran, x |-> out.x, ok |-> out.ok]
        /\ syncs' = 0
        /\ emitted' = Seen(out.result, emitted)
        /\ lost' = IF chk.gap THEN Pending(priv) ELSE {}
        /\ prev' = Before
        /\ UNCHANGED options

\* mutant: the stock handler, which leaves last_seq alone
IgnoreTuyaSetTimeStock ==
    /\ syncs < MaxSync
    /\ result' = Empty
    /\ msg' = [NoMsg EXCEPT !.type = "sync"]
    /\ gap' = FALSE
    /\ flush' = NoRun
    /\ syncs' = syncs + 1
    /\ lost' = {}
    /\ prev' = Before
    /\ UNCHANGED <<priv, options, emitted, obs>>

\* pj1203aIgnoreTuyaSetTime.convert
IgnoreTuyaSetTime ==
    /\ syncs < MaxSync
    /\ priv' = [priv EXCEPT !.last_seq = priv.last_seq + priv.seq_inc]
    /\ result' = Empty
    /\ msg' = [NoMsg EXCEPT !.type = "sync"]
    /\ gap' = FALSE
    /\ flush' = NoRun
    /\ syncs' = syncs + 1
    /\ lost' = {}
    /\ prev' = Before
    /\ UNCHANGED <<options, emitted, obs>>

\* the user changes the device's options
SetOptions(E) ==
    /\ \E o \in E.opts :
         /\ o # options
         /\ options' = o
    /\ result' = Empty
    /\ msg' = [NoMsg EXCEPT !.type = "options"]
    /\ gap' = FALSE
    /\ flush' = NoRun
    /\ lost' = {}
    /\ prev' = Before
    /\ UNCHANGED <<priv, syncs, emitted, obs>>

Datapoint(E) ==
    \E seq \in E.seqs : \E chk \in {SeqCheck(priv, seq)} :
        \E dp \in DpIds : \E v \in E.raw[dp] : \E now \in E.times :
            /\ FzDatapoints(dp, v, seq, now, chk)
            /\ obs' = Observe(E.watch, obs, priv, options, dp, v, chk.gap, now)

Next == Datapoint(TrafficA) \/ SetOptions(TrafficA)

Spec == Init(TrafficA) /\ [][Next]_vars

NextAB == Datapoint(TrafficAB) \/ SetOptions(TrafficAB)

SpecAB == Init(TrafficAB) /\ [][NextAB]_vars

NextSeq == Datapoint(TrafficSeq) \/ IgnoreTuyaSetTime

SpecSeq == Init(TrafficSeq) /\ [][NextSeq]_vars

NextSigned == Datapoint(TrafficSigned) \/ SetOptions(TrafficSigned)

SpecSigned == Init(TrafficSigned) /\ [][NextSigned]_vars

NextTotal == Datapoint(TrafficTotal)

SpecTotal == Init(TrafficTotal) /\ [][NextTotal]_vars

NextZero == Datapoint(TrafficZero) \/ SetOptions(TrafficZero)

SpecZero == Init(TrafficZero) /\ [][NextZero]_vars

\* two instants of the clock: every field of channel a, power and current
\* also 0; the user switches single_zero_remove and late_energy_flow_a
TrafficClock ==
    [ raw |-> [dp \in DpIds |->
                 CASE dp = DpEnergyFlow.a -> {1}
                   [] dp = DpCurrent.a -> {0, 1500}
                   [] dp = DpPower.a -> {0, 798}
                   [] dp = DpPowerFactor.a -> {87}
                   [] OTHER -> {}],
      seqs |-> {0, 256},
      times |-> {1, 2},
      watch |-> {"clock"},
      opts |-> {o \in OptionSets :
                  /\ o.signed_power = AllFalse.signed_power
                  /\ ~o.late_energy_flow["b"]} ]

NextClock == Datapoint(TrafficClock) \/ SetOptions(TrafficClock)

SpecClock == Init(TrafficClock) /\ [][NextClock]_vars

\* whole cycles: channel a consuming or producing with two power readings,
\* a power reading and a current of 0 in between, a power factor of
\* channel b and the voltage interleaved; the user switches signed_power_a,
\* single_zero_remove and late_energy_flow_b
TrafficCycle ==
    [ raw |-> [dp \in DpIds |->
                 CASE dp = DpEnergyFlow.a -> {0, 1}
                   [] dp = DpCurrent.a -> {0, 1500}
                   [] dp = DpPower.a -> {371, 798}
                   [] dp = DpPowerFactor.a -> {87}
                   [] dp = DpPowerFactor.b -> {87}
                   [] dp = DpVoltage -> {2301}
                   [] OTHER -> {}],
      seqs |-> {0, 256},
      times |-> {1},
      watch |-> {"cycle"},
      opts |-> {o \in OptionSets :
                  /\ ~o.late_energy_flow["a"]
                  /\ ~o.signed_power["b"]} ]

NextCycle == Datapoint(TrafficCycle) \/ SetOptions(TrafficCycle)

SpecCycle == Init(TrafficCycle) /\ [][NextCycle]_vars

\* late_energy_flow_a on throughout: channel a consuming or producing,
\* with a current of 0 at times; the user switches signed_power_a and
\* single_zero_remove
TrafficOwed ==
    [ raw |-> [dp \in DpIds |->
                 CASE dp = DpEnergyFlow.a -> {0, 1}
                   [] dp = DpCurrent.a -> {0, 1500}
                   [] dp = DpPower.a -> {798}
                   [] dp = DpPowerFactor.a -> {87}
                   [] OTHER -> {}],
      seqs |-> {0, 256},
      times |-> {1},
      watch |-> {"late"},
      opts |-> {o \in OptionSets :
                  /\ o.late_energy_flow = [a |-> TRUE, b |-> FALSE]
                  /\ ~o.signed_power["b"]} ]

NextOwed == Datapoint(TrafficOwed) \/ SetOptions(TrafficOwed)

SpecOwed == Init(TrafficOwed) /\ [][NextOwed]_vars

\* the zero state: channel a with a current and a power that are 0 or
\* not, the power factor 100 of the zero state and a direction; the user
\* switches single_zero_remove and late_energy_flow_a
TrafficRest ==
    [ raw |-> [dp \in DpIds |->
                 CASE dp = DpEnergyFlow.a -> {0}
                   [] dp = DpCurrent.a -> {0, 1500}
                   [] dp = DpPower.a -> {0, 798}
                   [] dp = DpPowerFactor.a -> {100}
                   [] OTHER -> {}],
      seqs |-> {0, 256},
      times |-> {1},
      watch |-> {"rest"},
      opts |-> {o \in OptionSets :
                  /\ o.signed_power = AllFalse.signed_power
                  /\ ~o.late_energy_flow["b"]} ]

NextRest == Datapoint(TrafficRest) \/ SetOptions(TrafficRest)

SpecRest == Init(TrafficRest) /\ [][NextRest]_vars

NextLate == Datapoint(TrafficLate) \/ SetOptions(TrafficLate)

SpecLate == Init(TrafficLate) /\ [][NextLate]_vars

----------------------------------------------------------------------------
(* The v1 converter (src/unnamed/part_002, lines 1-520).  It runs in the   *)
(* same variables: priv is meta.device._priv, options the device options   *)
(* of v1, result the record the handler returns.  A field of the four      *)
(* buffered ones is None or Some(v) in priv and in the record alike (a     *)
(* record of v1 may carry nulls); counter_x and power_ab are numbers.      *)

\* flush attempts a counter may count in a run before the traffic stops
MaxCount == 1

\* fields a channel may publish at once in a run before its traffic stops
MaxImmediate == 3

PJ1203A_SEQ_INCREMENT == 256

PJ1203A_getPrivateState ==
    [ energy_flow |-> [x \in Chan |-> None],
      power |-> [x \in Chan |-> None],
      current |-> [x \in Chan |-> None],
      power_factor |-> [x \in Chan |-> None],
      last_seq |-> -99999,
      counter |-> [x \in Chan |-> 0],
      pub_energy_flow |-> [x \in Chan |-> None],
      pub_power |-> [x \in Chan |-> None] ]

PJ1203A_options ==
    [ publishing_mode : {"immediate", "at_power_factor", "at_energy_flow"},
      missing_message_detection : BOOLEAN,
      missing_data_behavior : {"keep_missing", "keep_all", "nullify_missing", "nullify_all"},
      power_ab_mode : {"immediate", "recompute"} ]

PJ1203A_get_missing_message_detection(opts) == opts.missing_message_detection
PJ1203A_get_publishing_mode(opts) == opts.publishing_mode
PJ1203A_get_missing_data_behavior(opts) == opts.missing_data_behavior
PJ1203A_get_power_ab_mode(opts) == opts.power_ab_mode

CounterKey == [a |-> "counter_a", b |-> "counter_b"]
Fields == {"energy_flow", "power", "current", "power_factor"}

\* mutant: the counter is not cut to 16 bits
PJ1203A_next_counter_unmasked(r, p, x) ==
    LET c == p.counter[x] + 1
    IN  [priv |-> [p EXCEPT !.counter[x] = c], result |-> Put(r, CounterKey[x], c)]

\* mutant: the counter stops at 65535
PJ1203A_next_counter_saturating(r, p, x) ==
    LET c == IF p.counter[x] = 65535 THEN 65535 ELSE p.counter[x] + 1
    IN  [priv |-> [p EXCEPT !.counter[x] = c], result |-> Put(r, CounterKey[x], c)]

\* result[counter_x] = priv[counter_x] = (priv[counter_x] + 1) & 0xFFFF
PJ1203A_next_counter(r, p, x) ==
    LET c == And0xffff(p.counter[x] + 1)
    IN  [priv |-> [p EXCEPT !.counter[x] = c], result |-> Put(r, CounterKey[x], c)]

\* priv.pub_<f>_x = result.<f>_x for the keys the record has
PubOf(r, pub, f) ==
    [x \in Chan |-> IF Has(r, Key(f, x)) THEN r[Key(f, x)] ELSE pub[x]]

PJ1203A_recompute_power_ab(r, p, opts) ==
    LET modified == \E x \in Chan : Has(r, Key("power", x)) \/ Has(r, Key("energy_flow", x))
        q == [p EXCEPT !.pub_power = PubOf(r, p.pub_power, "power"),
                       !.pub_energy_flow = PubOf(r, p.pub_energy_flow, "energy_flow")]
        signed(x) == IF q.pub_energy_flow[x] = Some("producing")
                     THEN 0 - Val(q.pub_power[x]) ELSE Val(q.pub_power[x])
    IN  [ priv |-> q,
          result |->
            IF /\ modified
               /\ PJ1203A_get_power_ab_mode(opts) = "recompute"
               /\ \A x \in Chan : q.pub_energy_flow[x] # None /\ q.pub_power[x] # None
            THEN Put(r, "power_ab", PowerAb(signed("a"), signed("b")))
            ELSE r ]

\* the fields an incomplete set publishes under each missing_data_behavior
MissingData(r, x, p, opts) ==
    LET put(q, f, v) == Put(q, Key(f, x), v)
        all(v(_)) == put(put(put(put(r, "energy_flow", v("energy_flow")), "power", v("power")),
                             "current", v("current")), "power_factor", v("power_factor"))
        asis(f) == p[f][x]
        null(f) == None
        kept == {f \in Fields : p[f][x] # None}
    IN  CASE PJ1203A_get_missing_data_behavior(opts) = "keep_missing" ->
               [k \in DOMAIN r \cup {Key(f, x) : f \in kept} |->
                  IF k \in DOMAIN r THEN r[k]
                  ELSE p[CHOOSE f \in kept : Key(f, x) = k][x]]
          [] PJ1203A_get_missing_data_behavior(opts) = "nullify_missing" -> all(asis)
          [] PJ1203A_get_missing_data_behavior(opts) = "nullify_all" -> all(null)
          [] OTHER -> r

\* mutant: nullify_all publishes the fields as they are
PJ1203A_flush_all_as_is(r, x, p, opts, clear) ==
    LET p1 == IF clear
              THEN [p EXCEPT !.energy_flow[x] = None, !.power[x] = None,
                             !.current[x] = None, !.power_factor[x] = None]
              ELSE p
        complete == \A f \in Fields : p[f][x] # None
        r1 == IF complete \/ PJ1203A_get_missing_data_behavior(opts) = "nullify_all"
              THEN Put(Put(Put(Put(r, Key("energy_flow", x), p.energy_flow[x]),
                               Key("power", x), p.power[x]),
                           Key("current", x), p.current[x]),
                       Key("power_factor", x), p.power_factor[x])
              ELSE MissingData(r, x, p, opts)
        f1 == PJ1203A_recompute_power_ab(r1, p1, opts)
        f2 == PJ1203A_next_counter(f1.result, f1.priv, x)
    IN  [priv |-> f2.priv, result |-> f2.result, ok |-> complete]

PJ1203A_flush_all(r, x, p, opts, clear) ==
    LET p1 == IF clear
              THEN [p EXCEPT !.energy_flow[x] = None, !.power[x] = None,
                             !.current[x] = None, !.power_factor[x] = None]
              ELSE p
        complete == \A f \in Fields : p[f][x] # None
        r1 == IF complete
              THEN Put(Put(Put(Put(r, Key("energy_flow", x), p.energy_flow[x]),
                               Key("power", x), p.power[x]),
                           Key("current", x), p.current[x]),
                       Key("power_factor", x), p.power_factor[x])
              ELSE MissingData(r, x, p, opts)
        f1 == PJ1203A_recompute_power_ab(r1, p1, opts)
        f2 == PJ1203A_next_counter(f1.result, f1.priv, x)
    IN  [priv |-> f2.priv, result |-> f2.result, ok |-> complete]

\* mutant: the zero snapshot leaves the power factor as it is buffered
PJ1203A_flush_zero_keeps_power_factor(r, x, p, opts) ==
    PJ1203A_flush_all(r, x,
        [p EXCEPT !.energy_flow[x] = Some("consuming"), !.power[x] = Some(0),
                  !.current[x] = Some(0)],
        opts, FALSE)

PJ1203A_flush_zero(r, x, p, opts) ==
    PJ1203A_flush_all(r, x,
        [p EXCEPT !.energy_flow[x] = Some("consuming"), !.power[x] = Some(0),
                  !.current[x] = Some(0), !.power_factor[x] = Some(100)],
        opts, FALSE)

\* an immediate publication of one field: the record, power_ab recomputed
\* where the converter does so, and the counter
Immediate(x, f, v, p, opts, recompute) ==
    LET r == Put(Empty, Key(f, x), v)
        f1 == IF recompute THEN PJ1203A_recompute_power_ab(r, p, opts)
              ELSE [priv |-> p, result |-> r]
    IN  PJ1203A_next_counter(f1.result, f1.priv, x)

Flow(v) == IF v = 0 THEN "consuming" ELSE IF v = 1 THEN "producing" ELSE "unknown"

PJ1203A_energy_flow_from(x, v, p, opts) ==
    LET p1 == [p EXCEPT !.energy_flow[x] = Some(Flow(v))]
    IN  CASE PJ1203A_get_publishing_mode(opts) = "immediate" ->
               Immediate(x, "energy_flow", Some(Flow(v)), p1, opts, TRUE)
                 @@ [ran |-> "immediate", x |-> x, ok |-> TRUE]
          [] PJ1203A_get_publishing_mode(opts) = "at_energy_flow" ->
               Ran("all", x, PJ1203A_flush_all(Empty, x, p1, opts, TRUE))
          [] OTHER -> NoFlush(p1)

PJ1203A_power_from(x, v, p, opts) ==
    LET p1 == [p EXCEPT !.power[x] = Some(v)]
    IN  IF v = 0 THEN Ran("zero", x, PJ1203A_flush_zero(Empty, x, p1, opts))
        ELSE IF PJ1203A_get_publishing_mode(opts) = "immediate"
        THEN Immediate(x, "power", Some(v), p1, opts, TRUE)
               @@ [ran |-> "immediate", x |-> x, ok |-> TRUE]
        ELSE NoFlush(p1)

PJ1203A_current_from(x, v, p, opts) ==
    LET p1 == [p EXCEPT !.current[x] = Some(v)]
    IN  IF v = 0 THEN Ran("zero", x, PJ1203A_flush_zero(Empty, x, p1, opts))
        ELSE IF PJ1203A_get_publishing_mode(opts) = "immediate"
        THEN Immediate(x, "current", Some(v), p1, opts, FALSE)
               @@ [ran |-> "immediate", x |-> x, ok |-> TRUE]
        ELSE NoFlush(p1)

PJ1203A_power_factor_from(x, v, p, opts) ==
    LET p1 == [p EXCEPT !.power_factor[x] = Some(v)]
    IN  CASE PJ1203A_get_publishing_mode(opts) = "immediate" ->
               Immediate(x, "power_factor", Some(v), p1, opts, FALSE)
                 @@ [ran |-> "immediate", x |-> x, ok |-> TRUE]
          [] PJ1203A_get_publishing_mode(opts) = "at_power_factor" ->
               Ran("all", x, PJ1203A_flush_all(Empty, x, p1, opts, TRUE))
          [] OTHER -> NoFlush(p1)

PJ1203A_power_ab_from(v, p, opts) ==
    IF PJ1203A_get_power_ab_mode(opts) = "immediate"
    THEN [NoFlush(p) EXCEPT !.result = Put(Empty, "power_ab", v)]
    ELSE NoFlush(p)

\* meta.tuyaDatapoints of v1: the same datapoint numbers
PJ1203A_tuyaDatapoints(dp, v, p, opts) ==
    CASE Field(dp) = "power" -> PJ1203A_power_from(ChanOf(dp), v, p, opts)
      [] Field(dp) = "current" -> PJ1203A_current_from(ChanOf(dp), v, p, opts)
      [] Field(dp) = "power_factor" -> PJ1203A_power_factor_from(ChanOf(dp), v, p, opts)
      [] Field(dp) = "energy_flow" -> PJ1203A_energy_flow_from(ChanOf(dp), v, p, opts)
      [] Field(dp) = "power_ab" -> PJ1203A_power_ab_from(v, p, opts)
      [] OTHER -> [NoFlush(p) EXCEPT !.result = Put(Empty, "voltage", v)]

\* Clear all pending attributes
PJ1203A_clear_pending(p) ==
    [p EXCEPT !.energy_flow = [x \in Chan |-> None],
              !.power = [x \in Chan |-> None],
              !.current = [x \in Chan |-> None],
              !.power_factor = [x \in Chan |-> None]]

\* the sequence check of PJ1203A_fz_datapoints.convert
PJ1203A_seq_check(p, opts, seq) ==
    LET g == /\ PJ1203A_get_missing_message_detection(opts)
             /\ seq # And0xffff(p.last_seq + PJ1203A_SEQ_INCREMENT)
             /\ seq # p.last_seq
    IN  [gap |-> g,
         priv |-> [(IF g THEN PJ1203A_clear_pending(p) ELSE p) EXCEPT !.last_seq = seq]]

\* the channels with a pending field
PendingV1(p) == {x \in Chan : \E f \in Fields : p[f][x] # None}

\* PJ1203A_fz_datapoints.convert
PJ1203A_fz_datapoints(dp, v, seq, chk) ==
    LET out == PJ1203A_tuyaDatapoints(dp, v, chk.priv, options)
    IN  /\ priv' = out.priv
        /\ result' = out.result
        /\ msg' = [type |-> "datapoint", dp |-> dp, v |-> v, seq |-> seq]
        /\ gap' = chk.gap
        /\ flush' = [ran |-> out.ran, x |-> out.x, ok |-> out.ok]
        /\ syncs' = 0
        /\ lost' = IF chk.gap THEN PendingV1(priv) ELSE {}
        /\ prev' = Before
        /\ UNCHANGED <<options, emitted>>

\* v1: what the converter makes of the message m in the state p under the
\* options opts: the state it leaves and the record it returns
HandledV1(m, p, opts) ==
    LET out == PJ1203A_tuyaDatapoints(m.dp, m.v, PJ1203A_seq_check(p, opts, m.seq).priv, opts)
    IN  [priv |-> out.priv, result |-> out.result]

\* the options with missing_message_detection the other way round
OtherDetection(opts) ==
    [opts EXCEPT !.missing_message_detection = ~opts.missing_message_detection]

\* what the observer of a v1 run notes of the message m
ObserveV1(W, o, p, opts, m) ==
    IF "twin" \in W
    THEN [o EXCEPT !.twin =
            Some(HandledV1(m, IF o.twin = None THEN p ELSE Val(o.twin).priv,
                           OtherDetection(opts)))]
    ELSE o

\* PJ1203A_ignore_tuya_set_time.convert
PJ1203A_ignore_tuya_set_time ==
    /\ syncs < MaxSync
    /\ priv' = [priv EXCEPT !.last_seq = priv.last_seq + PJ1203A_SEQ_INCREMENT]
    /\ result' = Empty
    /\ msg' = [NoMsg EXCEPT !.type = "sync"]
    /\ gap' = FALSE
    /\ flush' = NoRun
    /\ syncs' = syncs + 1
    /\ lost' = {}
    /\ prev' = Before
    /\ UNCHANGED <<options, emitted, obs>>

\* a device that is new, or one whose channel a has counted 65534 updates
\* (power_factor_a 65534 times over with seq 0, nothing else buffered, in
\* at_power_factor mode with keep_all)
InitV1(E) ==
    /\ priv \in {PJ1203A_getPrivateState,
                 [PJ1203A_getPrivateState EXCEPT !.counter["a"] = 65534, !.last_seq = 0]}
    /\ options \in E.opts
    /\ result = Empty
    /\ msg = NoMsg
    /\ gap = FALSE
    /\ flush = NoRun
    /\ syncs = 0
    /\ emitted = [x \in Chan |-> None]
    /\ lost = {}
    /\ prev = [seq |-> priv.last_seq, gap |-> FALSE, syncs |-> 0]
    /\ obs = NoObs

\* a message of the traffic; the traffic of a channel stops when its
\* counter has counted E.count updates from 0
DatapointV1(E) ==
    \E seq \in E.seqs : \E chk \in {PJ1203A_seq_check(priv, options, seq)} :
        \E dp \in DpIds : \E v \in E.raw[dp] :
            /\ ChanOf(dp) \in Chan => priv.counter[ChanOf(dp)] # E.count
            /\ PJ1203A_fz_datapoints(dp, v, seq, chk)
            /\ obs' = ObserveV1(E.watch, obs, priv, options, [dp |-> dp, v |-> v, seq |-> seq])

\* incomplete sets in v1: the four fields of channel a in any order, with
\* losses; the user switches missing_data_behavior and the field that
\* triggers the flush
TrafficMissing ==
    [ raw |-> [dp \in DpIds |->
                 CASE dp = DpEnergyFlow.a -> {1}
                   [] dp = DpCurrent.a -> {1500}
                   [] dp = DpPower.a -> {798}
                   [] dp = DpPowerFactor.a -> {87}
                   [] OTHER -> {}],
      seqs |-> {0, 256},
      times |-> {1},
      watch |-> {},
      count |-> MaxCount,
      opts |-> {o \in PJ1203A_options :
                  /\ o.publishing_mode # "immediate"
                  /\ o.missing_message_detection
                  /\ o.power_ab_mode = "immediate"} ]

NextMissing == DatapointV1(TrafficMissing) \/ SetOptions(TrafficMissing)

SpecMissing == InitV1(TrafficMissing) /\ [][NextMissing]_vars

\* the update counters of v1: channel a with a direction, a power
\* reading, a current of 0 and a power factor, channel b with a power
\* factor, and sync-time messages; the user switches
\* publishing_mode and between keeping and nullifying incomplete sets
TrafficCount ==
    [ raw |-> [dp \in DpIds |->
                 CASE dp = DpEnergyFlow.a -> {1}
                   [] dp = DpCurrent.a -> {0}
                   [] dp = DpPower.a -> {798}
                   [] dp = DpPowerFactor.a -> {87}
                   [] dp = DpPowerFactor.b -> {87}
                   [] OTHER -> {}],
      seqs |-> {0, 256},
      times |-> {1},
      watch |-> {},
      count |-> MaxCount,
      opts |-> {o \in PJ1203A_options :
                  /\ o.missing_data_behavior \in {"keep_all", "nullify_all"}
                  /\ o.missing_message_detection
                  /\ o.power_ab_mode = "immediate"} ]

NextCount ==
    \/ DatapointV1(TrafficCount)
    \/ SetOptions(TrafficCount)
    \/ PJ1203A_ignore_tuya_set_time

SpecCount == InitV1(TrafficCount) /\ [][NextCount]_vars

\* immediate publication in v1 on channel a, with a current of 0; the user
\* switches missing_data_behavior
TrafficImmediate ==
    [ raw |-> [dp \in DpIds |->
                 CASE dp = DpEnergyFlow.a -> {1}
                   [] dp = DpCurrent.a -> {0}
                   [] dp = DpPower.a -> {798}
                   [] dp = DpPowerFactor.a -> {87}
                   [] OTHER -> {}],
      seqs |-> {0, 256},
      times |-> {1},
      watch |-> {},
      count |-> MaxImmediate,
      opts |-> {o \in PJ1203A_options :
                  /\ o.publishing_mode = "immediate"
                  /\ o.missing_message_detection
                  /\ o.power_ab_mode = "immediate"} ]

NextImmediate == DatapointV1(TrafficImmediate) \/ SetOptions(TrafficImmediate)

SpecImmediate == InitV1(TrafficImmediate) /\ [][NextImmediate]_vars

\* immediate publication in v1 with missing_message_detection on, next to
\* a twin that has it off: directions and power readings of both channels,
\* a power of 0 and a power factor on channel a; the user switches
\* power_ab_mode
TrafficTwin ==
    [ raw |-> [dp \in DpIds |->
                 CASE dp = DpEnergyFlow.a -> {1}
                   [] dp = DpPower.a -> {0, 798}
                   [] dp = DpPowerFactor.a -> {87}
                   [] dp = DpEnergyFlow.b -> {0}
                   [] dp = DpPower.b -> {371}
                   [] OTHER -> {}],
      seqs |-> {0, 256},
      times |-> {1},
      watch |-> {"twin"},
      count |-> MaxImmediate,
      opts |-> {o \in PJ1203A_options :
                  /\ o.publishing_mode = "immediate"
                  /\ o.missing_message_detection
                  /\ o.missing_data_behavior = "keep_all"} ]

NextTwin == DatapointV1(TrafficTwin) \/ SetOptions(TrafficTwin)

SpecTwin == InitV1(TrafficTwin) /\ [][NextTwin]_vars

----------------------------------------------------------------------------
(* The v2 converter (src/unnamed/part_002, lines 522-906), in the same     *)
(* variables.  Its buffers are sign, power, current and power_factor; its  *)
(* records carry the signed power_x, current_x, power_factor_x, counter_x  *)
(* and power_ab as numbers.  Its one option is exposed under the name      *)
(* v2_energy_flow_qwirk.                                                   *)

PJ1203A_SEQ_INCREMENT_v2 == 256

PJ1203A_getPrivateState_v2 ==
    [ sign |-> [x \in Chan |-> None],
      power |-> [x \in Chan |-> None],
      current |-> [x \in Chan |-> None],
      power_factor |-> [x \in Chan |-> None],
      last_seq |-> -99999,
      counter |-> [x \in Chan |-> 0],
      pub_power |-> [x \in Chan |-> None] ]

\* the options the definition exposes
PJ1203A_options_v2 == [v2_energy_flow_qwirk : BOOLEAN]

\* options?.energy_flow_qwirk || false, of the options it is handed (Empty
\* when it is handed none)
PJ1203A_get_energy_flow_qwirk(opts) ==
    Has(opts, "energy_flow_qwirk") /\ opts["energy_flow_qwirk"] = TRUE

\* result[counter_x] = priv[counter_x] = (priv[counter_x] + 1) % 1000
PJ1203A_next_counter_v2(r, p, x) ==
    LET c == (p.counter[x] + 1) % 1000
    IN  [priv |-> [p EXCEPT !.counter[x] = c], result |-> Put(r, CounterKey[x], c)]

PJ1203A_recompute_power_ab_v2(r, p, opts) ==
    LET modified == \E x \in Chan : Has(r, Key("power", x))
        q == [p EXCEPT !.pub_power =
                [x \in Chan |-> IF Has(r, Key("power", x)) THEN Some(r[Key("power", x)])
                                ELSE p.pub_power[x]]]
    IN  [ priv |-> q,
          result |->
            IF modified /\ \A x \in Chan : q.pub_power[x] # None
            THEN Put(r, "power_ab", PowerAb(Val(q.pub_power["a"]), Val(q.pub_power["b"])))
            ELSE r ]

PJ1203A_flush_all_v2(r, x, p, opts, clear) ==
    LET p1 == IF clear
              THEN [p EXCEPT !.sign[x] = None, !.power[x] = None,
                             !.current[x] = None, !.power_factor[x] = None]
              ELSE p
        complete == /\ p.sign[x] # None /\ p.power[x] # None
                    /\ p.current[x] # None /\ p.power_factor[x] # None
        r1 == Put(Put(Put(r, Key("power", x), Val(p.sign[x]) * Val(p.power[x])),
                      Key("current", x), Val(p.current[x])),
                  Key("power_factor", x), Val(p.power_factor[x]))
        f1 == PJ1203A_recompute_power_ab_v2(r1, p1, opts)
        f2 == PJ1203A_next_counter_v2(f1.result, f1.priv, x)
    IN  IF complete THEN [priv |-> f2.priv, result |-> f2.result, ok |-> TRUE]
        ELSE [priv |-> p1, result |-> r, ok |-> FALSE]

PJ1203A_flush_zero_v2(r, x, p, opts) ==
    PJ1203A_flush_all_v2(r, x,
        [p EXCEPT !.sign[x] = Some(1), !.power[x] = Some(0),
                  !.current[x] = Some(0), !.power_factor[x] = Some(100)],
        opts, FALSE)

\* energy_flow: the sign is buffered and {} returned
PJ1203A_energy_flow_from_v2(x, v, p, opts) ==
    NoFlush([p EXCEPT !.sign[x] = Some(IF v = 1 THEN -1 ELSE 1)])

PJ1203A_power_from_v2(x, v, p, opts) ==
    LET p1 == [p EXCEPT !.power[x] = Some(v)]
    IN  IF v = 0 THEN Ran("zero", x, PJ1203A_flush_zero_v2(Empty, x, p1, opts))
        ELSE NoFlush(p1)

PJ1203A_current_from_v2(x, v, p, opts) ==
    LET p1 == [p EXCEPT !.current[x] = Some(v)]
    IN  IF v = 0 THEN Ran("zero", x, PJ1203A_flush_zero_v2(Empty, x, p1, opts))
        ELSE NoFlush(p1)

\* power_factor: PJ1203A_get_energy_flow_qwirk() is called with no argument
PJ1203A_power_factor_from_v2(x, v, p, opts) ==
    LET p1 == [p EXCEPT !.power_factor[x] = Some(v)]
        energy_flow_qwirk == PJ1203A_get_energy_flow_qwirk(Empty)
    IN  IF ~energy_flow_qwirk
        THEN Ran("all", x, PJ1203A_flush_all_v2(Empty, x, p1, opts, TRUE))
        ELSE NoFlush(p1)

\* power_ab: We currently discard the power_ab datapoint
PJ1203A_power_ab_from_v2(v, p, opts) == NoFlush(p)

\* meta.tuyaDatapoints of v2: the same datapoint numbers
PJ1203A_tuyaDatapoints_v2(dp, v, p, opts) ==
    CASE Field(dp) = "power" -> PJ1203A_power_from_v2(ChanOf(dp), v, p, opts)
      [] Field(dp) = "current" -> PJ1203A_current_from_v2(ChanOf(dp), v, p, opts)
      [] Field(dp) = "power_factor" -> PJ1203A_power_factor_from_v2(ChanOf(dp), v, p, opts)
      [] Field(dp) = "energy_flow" -> PJ1203A_energy_flow_from_v2(ChanOf(dp), v, p, opts)
      [] Field(dp) = "power_ab" -> PJ1203A_power_ab_from_v2(v, p, opts)
      [] OTHER -> [NoFlush(p) EXCEPT !.result = Put(Empty, "voltage", v)]

\* the sequence check of PJ1203A_fz_datapoints.convert of v2: always on
PJ1203A_seq_check_v2(p, seq) ==
    LET g == /\ seq # And0xffff(p.last_seq + PJ1203A_SEQ_INCREMENT_v2)
             /\ seq # p.last_seq
    IN  [gap |-> g,
         priv |-> [(IF g THEN [p EXCEPT !.sign = [x \in Chan |-> None],
                                        !.power = [x \in Chan |-> None],
                                        !.current = [x \in Chan |-> None],
                                        !.power_factor = [x \in Chan |-> None]]
                    ELSE p) EXCEPT !.last_seq = seq]]

BufFieldsV2 == {"sign", "power", "current", "power_factor"}

\* the channels with a pending attribute
PendingV2(p) ==
    {x \in Chan : \E f \in BufFieldsV2 : p[f][x] # None}

\* PJ1203A_fz_datapoints.convert of v2
PJ1203A_fz_datapoints_v2(dp, v, seq, chk) ==
    LET out == PJ1203A_tuyaDatapoints_v2(dp, v, chk.priv, options)
    IN  /\ priv' = out.priv
        /\ result' = out.result
        /\ msg' = [type |-> "datapoint", dp |-> dp, v |-> v, seq |-> seq]
        /\ gap' = chk.gap
        /\ flush' = [ran |-> out.ran, x |-> out.x, ok |-> out.ok]
        /\ syncs' = 0
        /\ lost' = IF chk.gap THEN PendingV2(priv) ELSE {}
        /\ prev' = Before
        /\ UNCHANGED <<options, emitted, obs>>

\* PJ1203A_ignore_tuya_set_time.convert of v2
PJ1203A_ignore_tuya_set_time_v2 ==
    /\ syncs < MaxSync
    /\ priv' = [priv EXCEPT !.last_seq = priv.last_seq + PJ1203A_SEQ_INCREMENT_v2]
    /\ result' = Empty
    /\ msg' = [NoMsg EXCEPT !.type = "sync"]
    /\ gap' = FALSE
    /\ flush' = NoRun
    /\ syncs' = syncs + 1
    /\ lost' = {}
    /\ prev' = Before
    /\ UNCHANGED <<options, emitted, obs>>

InitV2(E) ==
    /\ priv = PJ1203A_getPrivateState_v2
    /\ options \in E.opts
    /\ result = Empty
    /\ msg = NoMsg
    /\ gap = FALSE
    /\ flush = NoRun
    /\ syncs = 0
    /\ emitted = [x \in Chan |-> None]
    /\ lost = {}
    /\ prev = [seq |-> priv.last_seq, gap |-> FALSE, syncs |-> 0]
    /\ obs = NoObs

\* a message of the traffic; the traffic of a channel stops when its
\* counter has counted MaxCount + 1 updates
DatapointV2(E) ==
    \E seq \in E.seqs : \E chk \in {PJ1203A_seq_check_v2(priv, seq)} :
        \E dp \in DpIds : \E v \in E.raw[dp] :
            /\ ChanOf(dp) \in Chan => priv.counter[ChanOf(dp)] <= MaxCount
            /\ PJ1203A_fz_datapoints_v2(dp, v, seq, chk)

\* v2: channel a consuming or producing and a zero current on channel b;
\* the user switches the option of delaying the publication
TrafficQwirk ==
    [ raw |-> [dp \in DpIds |->
                 CASE dp = DpEnergyFlow.a -> {0, 1}
                   [] dp = DpCurrent.a -> {1500}
                   [] dp = DpPower.a -> {798}
                   [] dp = DpPowerFactor.a -> {87}
                   [] dp = DpCurrent.b -> {0}
                   [] OTHER -> {}],
      seqs |-> {0, 256},
      times |-> {1},
      watch |-> {},
      opts |-> PJ1203A_options_v2 ]

NextQwirk ==
    \/ DatapointV2(TrafficQwirk)
    \/ SetOptions(TrafficQwirk)
    \/ PJ1203A_ignore_tuya_set_time_v2

SpecQwirk == InitV2(TrafficQwirk) /\ [][NextQwirk]_vars

----------------------------------------------------------------------------
(* The v4 converter (src/PJ-1203A.js, lines 489-968), in the same          *)
(* variables.  Its options are late_energy_flow_A, late_energy_flow_B,     *)
(* signed_power_A and signed_power_B.  A handler that throws leaves        *)
(* Thrown(e) in result, where a handler that returns leaves its record.    *)

Thrown(e) == [exception |-> e]

PJ1203A_getPrivateState_v4 ==
    [ sign |-> [x \in Chan |-> None],
      power |-> [x \in Chan |-> None],
      current |-> [x \in Chan |-> None],
      power_factor |-> [x \in Chan |-> None],
      timestamp |-> [x \in Chan |-> None],
      last_seq |-> -99999,
      seq_inc |-> 256,
      pub_power |-> [x \in Chan |-> None] ]

PJ1203A_options_v4 ==
    [ late_energy_flow_A : BOOLEAN, late_energy_flow_B : BOOLEAN,
      signed_power_A : BOOLEAN, signed_power_B : BOOLEAN ]

\* 'late_energy_flow_' + x.toUpperCase(), 'signed_power_' + x.toUpperCase()
UpperKey ==
    [ late_energy_flow |-> [a |-> "late_energy_flow_A", b |-> "late_energy_flow_B"],
      signed_power |-> [a |-> "signed_power_A", b |-> "signed_power_B"] ]

\* options[key] if the key is there; the else branch returns nothing
PJ1203A_get_late_energy_flow(opts, x) ==
    Has(opts, UpperKey.late_energy_flow[x]) /\ opts[UpperKey.late_energy_flow[x]]

PJ1203A_get_signed_power(opts, x) ==
    Has(opts, UpperKey.signed_power[x]) /\ opts[UpperKey.signed_power[x]]

PJ1203A_recompute_power_ab_v4(r, p, opts) ==
    LET modified == \E x \in Chan : Has(r, Key("power", x))
        q == [p EXCEPT !.pub_power =
                [x \in Chan |->
                   IF Has(r, Key("power", x))
                   THEN Some(r[Key("power", x)] *
                             (IF r[Key("energy_flow", x)] = "producing" THEN -1 ELSE 1))
                   ELSE p.pub_power[x]]]
    IN  [ priv |-> q,
          result |->
            IF modified /\ \A x \in Chan : q.pub_power[x] # None
            THEN Put(r, "power_ab", PowerAb(Val(q.pub_power["a"]), Val(q.pub_power["b"])))
            ELSE r ]

PJ1203A_flush_all_v4(r, x, p, opts) ==
    LET p1 == [p EXCEPT !.sign[x] = None, !.power[x] = None,
                        !.current[x] = None, !.power_factor[x] = None]
        complete == /\ p.sign[x] # None /\ p.power[x] # None
                    /\ p.current[x] # None /\ p.power_factor[x] # None
        signed == PJ1203A_get_signed_power(opts, x)
        r1 == Put(Put(Put(Put(Put(r,
                  Key("power", x),
                      IF signed THEN Val(p.sign[x]) * Val(p.power[x]) ELSE Val(p.power[x])),
                  Key("energy_flow", x),
                      IF signed THEN "sign"
                      ELSE IF Val(p.sign[x]) > 0 THEN "consuming" ELSE "producing"),
                  Key("timestamp", x), p.timestamp[x]),
                  Key("current", x), Val(p.current[x])),
                  Key("power_factor", x), Val(p.power_factor[x]))
        f1 == PJ1203A_recompute_power_ab_v4(r1, p1, opts)
    IN  IF complete THEN [priv |-> f1.priv, result |-> f1.result, ok |-> TRUE]
        ELSE [priv |-> p1, result |-> r, ok |-> FALSE]

PJ1203A_flush_zero_v4(r, x, p, opts, now) ==
    PJ1203A_flush_all_v4(r, x,
        [p EXCEPT !.sign[x] = Some(1), !.power[x] = Some(0), !.timestamp[x] = Some(now),
                  !.current[x] = Some(0), !.power_factor[x] = Some(100)],
        opts)

PJ1203A_energy_flow_from_v4(x, v, p, opts, now) ==
    LET p1 == [p EXCEPT !.sign[x] = Some(IF v = 1 THEN -1 ELSE 1)]
    IN  IF PJ1203A_get_late_energy_flow(opts, x)
        THEN Ran("all", x, PJ1203A_flush_all_v4(Empty, x, p1, opts))
        ELSE NoFlush(p1)

PJ1203A_power_from_v4(x, v, p, opts, now) ==
    LET p1 == [p EXCEPT !.power[x] = Some(v), !.timestamp[x] = Some(now)]
    IN  IF v = 0 THEN Ran("zero", x, PJ1203A_flush_zero_v4(Empty, x, p1, opts, now))
        ELSE NoFlush(p1)

PJ1203A_current_from_v4(x, v, p, opts, now) ==
    LET p1 == [p EXCEPT !.current[x] = Some(v)]
    IN  IF v = 0 THEN Ran("zero", x, PJ1203A_flush_zero_v4(Empty, x, p1, opts, now))
        ELSE NoFlush(p1)

PJ1203A_power_factor_from_v4(x, v, p, opts, now) ==
    LET p1 == [p EXCEPT !.power_factor[x] = Some(v)]
    IN  IF ~PJ1203A_get_late_energy_flow(opts, x)
        THEN Ran("all", x, PJ1203A_flush_all_v4(Empty, x, p1, opts))
        ELSE NoFlush(p1)

PJ1203A_tuyaDatapoints_v4(dp, v, p, opts, now) ==
    CASE Field(dp) = "power" -> PJ1203A_power_from_v4(ChanOf(dp), v, p, opts, now)
      [] Field(dp) = "current" -> PJ1203A_current_from_v4(ChanOf(dp), v, p, opts, now)
      [] Field(dp) = "power_factor" -> PJ1203A_power_factor_from_v4(ChanOf(dp), v, p, opts, now)
      [] Field(dp) = "energy_flow" -> PJ1203A_energy_flow_from_v4(ChanOf(dp), v, p, opts, now)
      [] Field(dp) = "power_ab" -> NoFlush(p)
      [] OTHER -> [NoFlush(p) EXCEPT !.result = Put(Empty, "voltage", v)]

\* What a free identifier of the module of v4 resolves to: the module
\* declares no seq_inc (seq_inc is a key of the private state), and neither
\* Node nor zigbee2mqtt defines a global of that name.
GlobalsV4 == Empty

\* let expected_seq = (priv.last_seq+seq_inc) & 0xFFFF, and the branch that
\* clears the pending attributes: reading an identifier that resolves to
\* nothing throws a ReferenceError
PJ1203A_seq_check_v4(p, seq) ==
    IF ~Has(GlobalsV4, "seq_inc")
    THEN [thrown |-> TRUE, gap |-> FALSE, priv |-> p]
    ELSE LET g == /\ seq # And0xffff(p.last_seq + GlobalsV4["seq_inc"])
                  /\ seq # p.last_seq
         IN  [thrown |-> FALSE, gap |-> g,
              priv |-> [(IF g THEN [p EXCEPT !.sign = [x \in Chan |-> None],
                                             !.power = [x \in Chan |-> None],
                                             !.current = [x \in Chan |-> None],
                                             !.power_factor = [x \in Chan |-> None]]
                         ELSE p) EXCEPT !.last_seq = seq]]

\* PJ1203A_fz_datapoints.convert of v4
PJ1203A_fz_datapoints_v4(dp, v, seq, now, chk) ==
    LET out == IF chk.thrown
               THEN [NoFlush(chk.priv) EXCEPT !.result = Thrown("ReferenceError")]
               ELSE PJ1203A_tuyaDatapoints_v4(dp, v, chk.priv, options, now)
    IN  /\ priv' = out.priv
        /\ result' = out.result
        /\ msg' = [type |-> "datapoint", dp |-> dp, v |-> v, seq |-> seq]
        /\ gap' = chk.gap
        /\ flush' = [ran |-> out.ran, x |-> out.x, ok |-> out.ok]
        /\ syncs' = 0
        /\ lost' = IF chk.gap THEN PendingV2(priv) ELSE {}
        /\ prev' = Before
        /\ UNCHANGED <<options, emitted, obs>>

\* PJ1203A_ignore_tuya_set_time.convert of v4; the sync-time messages stop
\* when last_seq has gone MaxSync + 1 increments up
PJ1203A_ignore_tuya_set_time_v4 ==
    /\ syncs < MaxSync
    /\ priv.last_seq <= PJ1203A_getPrivateState_v4.last_seq + MaxSync * priv.seq_inc
    /\ priv' = [priv EXCEPT !.last_seq = priv.last_seq + priv.seq_inc]
    /\ result' = Empty
    /\ msg' = [NoMsg EXCEPT !.type = "sync"]
    /\ gap' = FALSE
    /\ flush' = NoRun
    /\ syncs' = syncs + 1
    /\ lost' = {}
    /\ prev' = Before
    /\ UNCHANGED <<options, emitted, obs>>

InitV4(E) ==
    /\ priv = PJ1203A_getPrivateState_v4
    /\ options \in E.opts
    /\ result = Empty
    /\ msg = NoMsg
    /\ gap = FALSE
    /\ flush = NoRun
    /\ syncs = 0
    /\ emitted = [x \in Chan |-> None]
    /\ lost = {}
    /\ prev = [seq |-> priv.last_seq, gap |-> FALSE, syncs |-> 0]
    /\ obs = NoObs

DatapointV4(E) ==
    \E seq \in E.seqs : \E now \in E.times : \E chk \in {PJ1203A_seq_check_v4(priv, seq)} :
        \E dp \in DpIds : \E v \in E.raw[dp] :
            PJ1203A_fz_datapoints_v4(dp, v, seq, now, chk)

\* v4: a cycle of channel a, a zero current on channel b, the device total
\* and the voltage; the user switches the four options
TrafficV4 ==
    [ raw |-> [dp \in DpIds |->
                 CASE dp = DpEnergyFlow.a -> {0, 1}
                   [] dp = DpCurrent.a -> {1500}
                   [] dp = DpPower.a -> {798}
                   [] dp = DpPowerFactor.a -> {87}
                   [] dp = DpCurrent.b -> {0}
                   [] dp = DpPowerAb -> {427}
                   [] OTHER -> {2305}],
      seqs |-> {0, 256},
      times |-> {1},
      watch |-> {},
      opts |-> PJ1203A_options_v4 ]

NextV4 ==
    \/ DatapointV4(TrafficV4)
    \/ SetOptions(TrafficV4)
    \/ PJ1203A_ignore_tuya_set_time_v4

SpecV4 == InitV4(TrafficV4) /\ [][NextV4]_vars

----------------------------------------------------------------------------
(* Vocabulary of the properties *)

IsDatapoint == msg.type = "datapoint"
MsgField == Field(msg.dp)
MsgChan == ChanOf(msg.dp)
Emits(x) == Has(result, Key("power", x))
BufFields == {"sign", "power", "current", "power_factor"}
\* the buffered field a datapoint writes
Written(dp) == IF Field(dp) = "energy_flow" THEN "sign" ELSE Field(dp)
AllEmpty(p, x) == \A f \in BufFields : p[f][x] = None
Mod65536(n) == n % 65536
\* the record carries a field of channel x
RecordOf(x) == \E f \in DOMAIN Keys : Has(result, Key(f, x))
ZeroReading == MsgField \in {"power", "current"} /\ msg.v = 0
\* v1: the message makes the converter flush channel x at its trigger field
FlushAttemptV1(x) ==
    /\ IsDatapoint
    /\ MsgChan = x
    /\ \/ MsgField = "energy_flow" /\ options.publishing_mode = "at_energy_flow"
       \/ MsgField = "power_factor" /\ options.publishing_mode = "at_power_factor"
\* v1: the message makes the converter flush or publish for channel x
UpdateV1(x) ==
    \/ FlushAttemptV1(x)
    \/ IsDatapoint /\ MsgChan = x /\ ZeroReading
    \/ IsDatapoint /\ MsgChan = x /\ options.publishing_mode = "immediate"
\* a datapoint message has been processed: before the first one last_seq
\* is the initial value plus one seq_inc for every sync-time message
Started == priv.last_seq # PrivInit.last_seq + syncs * priv.seq_inc
\* the datapoint messages of the traffic E
MessagesOf(E) ==
    { m \in [dp : DpIds, v : UNION {E.raw[d] : d \in DpIds}, seq : E.seqs] : m.v \in E.raw[m.dp] }
\* the record of the last step is the complete record of channel x with
\* the three values c and the direction of the energy_flow message
EmitsOwed(x, c) ==
    LET s == IF msg.v = 1 THEN -1 ELSE 1
    IN  /\ Emits(x)
        /\ result[Key("current", x)] = Val(c.current)
        /\ result[Key("power_factor", x)] = Val(c.power_factor)
        /\ IF options.signed_power[x]
           THEN /\ result[Key("power", x)] = s * Val(c.power)
                /\ result[Key("energy_flow", x)] = "sign"
           ELSE /\ result[Key("power", x)] = Val(c.power)
                /\ result[Key("energy_flow", x)] = (IF s = 1 THEN "consuming" ELSE "producing")
\* the options with signed_power_a and signed_power_b the other way round
OtherSigned(opts) == [opts EXCEPT !.signed_power = [x \in Chan |-> ~opts.signed_power[x]]]

----------------------------------------------------------------------------
\* C1: a record that carries power_ab carries the exact sum, in tenths of a
\* watt, of the signed powers most recently emitted for channel a and for
\* channel b.
C1_PowerAbIsSum ==
    Has(result, "power_ab") =>
        /\ emitted["a"] # None
        /\ emitted["b"] # None
        /\ result["power_ab"] = Val(emitted["a"]) + Val(emitted["b"])

C1_Witness ==
    /\ Has(result, "power_ab")
    /\ emitted["a"] = Some(798)
    /\ emitted["b"] = Some(0 - 371)
    /\ result["power_ab"] = 427

\* C2: pub_power_x is assigned exactly in the steps that emit power_x: a
\* step that changes it emits power_x, and after every step it is the
\* signed value of the power_x emitted last.
C2_PubPowerTracksEmission ==
    /\ [](\A x \in Chan : priv.pub_power[x] = emitted[x])
    /\ [][\A x \in Chan : priv'.pub_power[x] # priv.pub_power[x] => Emits(x)']_vars

C2_Witness ==
    /\ Emits("b")
    /\ ~Emits("a")
    /\ priv.pub_power["b"] = Some(0 - 371)
    /\ priv.pub_power["a"] = Some(798)

\* C3: with single_zero_remove off, a power or current datapoint of raw
\* value 0 for channel x emits in its own step the complete record of
\* channel x: power 0, current 0, power factor 100, direction forward
\* (consuming; in signed mode the label sign with power 0), whatever was
\* buffered and whatever late_energy_flow_x is.
C3_ZeroShortcut ==
    (/\ IsDatapoint
     /\ MsgField \in {"power", "current"}
     /\ msg.v = 0
     /\ ~options.single_zero_remove)
    => LET x == MsgChan
       IN  /\ Emits(x)
           /\ result[Key("power", x)] = 0
           /\ result[Key("current", x)] = 0
           /\ result[Key("power_factor", x)] = 100
           /\ result[Key("energy_flow", x)] =
                  (IF options.signed_power[x] THEN "sign" ELSE "consuming")
           /\ Has(result, Key("timestamp", x))
           /\ flush = [ran |-> "zero", x |-> x, ok |-> TRUE]

C3_Witness ==
    /\ IsDatapoint
    /\ msg.dp = DpCurrent.a
    /\ msg.v = 0
    /\ ~options.single_zero_remove
    /\ options.late_energy_flow["a"]
    /\ ~gap
    /\ result["power_factor_a"] = 100
    /\ result["energy_flow_a"] = "consuming"

\* C4: after a flush attempt on channel x (complete, incomplete, zero
\* shortcut or nullified) sign_x, power_x, current_x and power_factor_x
\* are empty and flushing channel x again emits nothing; a record with a
\* non-zero power_x takes the buffered value and leaves the buffer empty.
C4_FlushConsumes ==
    /\ [](flush.ran # "none" =>
            /\ AllEmpty(priv, flush.x)
            /\ pj1203aFlushAll(Empty, flush.x, priv, options).result = Empty
            /\ ~pj1203aFlushAll(Empty, flush.x, priv, options).ok)
    /\ [][\A x \in Chan :
            (Emits(x)' /\ result'[Key("power", x)] # 0) =>
                /\ flush'.x = x
                /\ ~gap'
                /\ priv.power[x] # None
                /\ priv'.power[x] = None]_vars

C4_Witness ==
    /\ flush = [ran |-> "all", x |-> "a", ok |-> TRUE]
    /\ MsgField = "energy_flow"
    /\ result["power_a"] = 798
    /\ AllEmpty(priv, "a")

\* C5: a message classified as a gap finds the pending sign, power, current
\* and power_factor of both channels cleared before its own datapoint is
\* applied: after the step nothing is pending but the field that datapoint
\* wrote, whichever datapoint it is.
C5_GapClearsBothChannels ==
    (IsDatapoint /\ gap) =>
        \A y \in Chan : \A f \in BufFields :
            priv[f][y] # None => (y = MsgChan /\ f = Written(msg.dp))

C5_Witness ==
    /\ IsDatapoint
    /\ gap
    /\ lost = Chan
    /\ msg.dp = DpVoltage
    /\ AllEmpty(priv, "a")
    /\ AllEmpty(priv, "b")

\* C6: a datapoint message takes the gap branch exactly when its seq is
\* neither last_seq nor (last_seq + seq_inc) mod 65536; a repeated seq
\* clears nothing and seq 0 after seq 65280 is in order.
C6_GapIffNeitherExpectedNorLast ==
    IsDatapoint =>
        /\ gap <=> (/\ msg.seq # prev.seq
                    /\ msg.seq # Mod65536(prev.seq + priv.seq_inc))
        /\ (msg.seq = prev.seq => ~gap /\ lost = {})

C6_Witness ==
    /\ IsDatapoint
    /\ msg.seq = 0
    /\ prev.seq = 65280
    /\ ~gap
    /\ priv.sign["a"] # None
    /\ priv.power["b"] # None

\* C7 as stated: the first datapoint message of a device, handled with
\* last_seq at its initial value, never takes the gap branch.
C7_FirstMessageNeverGap ==
    (IsDatapoint /\ prev.seq = PrivInit.last_seq) => ~gap

\* C7 amended: the first datapoint message takes the gap branch unless its
\* seq is 31329, which is (-99999 + 256) mod 65536; the branch then clears
\* fields and flags that are all still empty.
C7_FirstMessageGapUnless31329 ==
    (IsDatapoint /\ prev.seq = PrivInit.last_seq) =>
        /\ gap <=> msg.seq # 31329
        /\ lost = {}

C7_Witness ==
    /\ IsDatapoint
    /\ prev.seq = PrivInit.last_seq
    /\ msg.seq = 0
    /\ gap

\* C8: every datapoint message, a gap too, leaves last_seq at its own seq;
\* the message that follows a gap message of seq s with seq
\* (s + 256) mod 65536 is in order and clears nothing.
C8_LastSeqFollowsEveryMessage ==
    /\ IsDatapoint => priv.last_seq = msg.seq
    /\ (/\ IsDatapoint
        /\ prev.gap
        /\ msg.seq = Mod65536(prev.seq + 256))
       => (~gap /\ lost = {})

C8_Witness ==
    /\ IsDatapoint
    /\ prev.gap
    /\ prev.seq = 65280
    /\ msg.seq = 0
    /\ ~gap
    /\ priv.sign["a"] # None
    /\ priv.power["b"] # None

\* C9: a sync-time message adds seq_inc to last_seq and changes nothing
\* else of the private state; the datapoint message that follows one
\* sync-time message with seq (s + 2 * 256) mod 65536, s being the seq of
\* the datapoint message before it, is in order.
C9_SyncTimeCountsOneStep ==
    /\ [][msg'.type = "sync" =>
            priv' = [priv EXCEPT !.last_seq = priv.last_seq + priv.seq_inc]]_vars
    /\ [](msg.type = "sync" => ~gap /\ lost = {})
    /\ []((/\ IsDatapoint
            /\ prev.syncs = 1
            /\ prev.seq - 256 \in 0..65535
            /\ msg.seq = Mod65536((prev.seq - 256) + 2 * 256))
           => (~gap /\ lost = {}))

C9_Witness ==
    /\ IsDatapoint
    /\ prev.syncs = 1
    /\ prev.seq = 65536
    /\ msg.seq = 256
    /\ ~gap
    /\ priv.sign["a"] # None
    /\ priv.power["b"] # None

\* C10: the gap branch leaves pub_power_a and pub_power_b as they were (a
\* gap step changes pub_power_x only by emitting power_x itself), and an
\* emission of channel x during or after a gap adds its power to the last
\* emitted signed power of the other channel.
C10_GapKeepsPublished ==
    /\ [][gap' => \A x \in Chan :
                    ~Emits(x)' => priv'.pub_power[x] = priv.pub_power[x]]_vars
    /\ [][\A x \in Chan :
            (gap' /\ Emits(x)' /\ emitted[Other(x)] # None) =>
                /\ Has(result', "power_ab")
                /\ result'["power_ab"] =
                      ReaderSigned(result', x) + Val(emitted[Other(x)])]_vars
    /\ [](\A x \in Chan :
            (prev.gap /\ Emits(x) /\ emitted[Other(x)] # None) =>
                /\ Has(result, "power_ab")
                /\ result["power_ab"] =
                      ReaderSigned(result, x) + Val(emitted[Other(x)]))

C10_Witness ==
    /\ gap
    /\ lost = Chan
    /\ Emits("a")
    /\ priv.pub_power["b"] = Some(0 - 371)
    /\ result["power_ab"] = 0 - 371

\* C11: a record for channel x is emitted only by a message of channel x
\* that is a power or current reading of 0, or power_factor_x while
\* late_energy_flow_x is false, or energy_flow_x while late_energy_flow_x is
\* true; a non-zero power or current reading emits nothing.
C11_FlushTriggerExclusive ==
    /\ \A x \in Chan :
          RecordOf(x) =>
            /\ IsDatapoint
            /\ MsgChan = x
            /\ \/ ZeroReading
               \/ MsgField = "power_factor" /\ ~options.late_energy_flow[x]
               \/ MsgField = "energy_flow" /\ options.late_energy_flow[x]
    /\ (IsDatapoint /\ MsgField \in {"power", "current"} /\ msg.v # 0) => result = Empty

C11_Witness ==
    /\ options.late_energy_flow["a"]
    /\ ~options.late_energy_flow["b"]
    /\ msg.dp = DpEnergyFlow.a
    /\ RecordOf("a")
    /\ ~RecordOf("b")
    /\ priv.power_factor["b"] # None
    /\ emitted["b"] = Some(0)

\* C12: with late_energy_flow_x true, the record an energy_flow_x message
\* emits carries the power, current and power_factor that were in the
\* buffer before the message and the direction of the message itself,
\* whatever direction was buffered before.
C12_LateFlowPairsOldValuesNewDirection ==
    [][\A x \in Chan :
         (/\ msg'.type = "datapoint"
          /\ msg'.dp = DpEnergyFlow[x]
          /\ options.late_energy_flow[x]
          /\ RecordOf(x)')
         => LET s == IF msg'.v = 1 THEN -1 ELSE 1
            IN  /\ ~gap'
                /\ priv.power[x] # None
                /\ priv.current[x] # None
                /\ priv.power_factor[x] # None
                /\ ReaderSigned(result', x) = s * Val(priv.power[x])
                /\ result'[Key("current", x)] = Val(priv.current[x])
                /\ result'[Key("power_factor", x)] = Val(priv.power_factor[x])
                /\ result'[Key("energy_flow", x)] =
                      (IF options.signed_power[x] THEN "sign"
                       ELSE IF s = 1 THEN "consuming" ELSE "producing")]_vars

C12_Witness ==
    /\ options.late_energy_flow["a"]
    /\ ~options.signed_power["a"]
    /\ msg.dp = DpEnergyFlow.a
    /\ msg.v = 1
    /\ obs.sign["a"] = Some(1)
    /\ RecordOf("a")
    /\ result["energy_flow_a"] = "producing"
    /\ result["power_a"] = 150
    /\ result["current_a"] = 1500

\* C13: a complete flush of channel x with buffered sign s and magnitude p
\* emits power_x = p with consuming (s = +1) or producing (s = -1) when
\* signed_power_x is false, and power_x = s * p with the label sign when it
\* is true; code 0 buffers s = +1 and code 1 buffers s = -1.
C13_SignedAndUnsignedForms ==
    /\ []((/\ IsDatapoint
            /\ MsgField = "energy_flow"
            /\ msg.v \in {0, 1}
            /\ flush.ran = "none")
           => priv.sign[MsgChan] = Some(IF msg.v = 0 THEN 1 ELSE -1))
    /\ [][\A x \in Chan :
            (/\ flush'.ran = "all"
             /\ flush'.ok
             /\ flush'.x = x
             /\ msg'.dp = DpEnergyFlow[x] => msg'.v \in {0, 1})
            => LET s == IF msg'.dp = DpEnergyFlow[x]
                        THEN (IF msg'.v = 0 THEN 1 ELSE -1)
                        ELSE Val(priv.sign[x])
                   p == Val(priv.power[x])
               IN  IF options.signed_power[x]
                   THEN /\ result'[Key("power", x)] = s * p
                        /\ result'[Key("energy_flow", x)] = "sign"
                   ELSE /\ result'[Key("power", x)] = p
                        /\ result'[Key("energy_flow", x)] =
                              (IF s = 1 THEN "consuming" ELSE "producing")]_vars

C13_Witness ==
    /\ options.signed_power["a"]
    /\ msg.dp = DpPowerFactor.a
    /\ obs.sign["a"] = Some(0 - 1)
    /\ RecordOf("a")
    /\ result["power_a"] = 0 - 150
    /\ result["energy_flow_a"] = "sign"

\* C14: signed_power_x is read at flush time only: whatever message of the
\* traffic arrives next, the private state it leaves is the same with
\* signed_power the other way round, and an emitted record has the signed
\* form exactly when signed_power_x is true in the step that emits it,
\* whatever it was when the power reading arrived.
C14_SignedPowerReadAtFlush ==
    /\ \A dp \in DpIds : \A v \in TrafficSigned.raw[dp] : \A seq \in TrafficSigned.seqs :
          LET p == SeqCheck(priv, seq).priv
          IN  tuyaDatapoints(dp, v, p, options, 1).priv
                = tuyaDatapoints(dp, v, p, OtherSigned(options), 1).priv
    /\ \A x \in Chan :
          RecordOf(x) =>
            IF options.signed_power[x]
            THEN /\ result[Key("energy_flow", x)] = "sign"
                 /\ result[Key("power", x)] = Val(emitted[x])
            ELSE /\ result[Key("energy_flow", x)] \in {"consuming", "producing"}
                 /\ result[Key("power", x)] >= 0

C14_Witness ==
    /\ options.signed_power["a"]
    /\ obs.arrived["a"] = Some(FALSE)
    /\ msg.dp = DpPowerFactor.a
    /\ RecordOf("a")
    /\ result["energy_flow_a"] = "sign"
    /\ result["power_a"] = 0 - 150

\* C18: a record whose direction comes from an energy_flow code that is
\* neither 0 nor 1 carries a label of its own for the direction, which is
\* neither consuming nor producing (nor, in signed mode, sign).
C18_UnknownCodeLabelled ==
    (/\ IsDatapoint
     /\ MsgField = "energy_flow"
     /\ msg.v \notin {0, 1}
     /\ RecordOf(MsgChan))
    => result[Key("energy_flow", MsgChan)] \notin {"consuming", "producing", "sign"}

\* C15: a message carrying datapoint 115 that is in order or a duplicate
\* emits the empty record and changes nothing of the private state but
\* last_seq; every power_ab emitted is the sum of the two signed powers
\* emitted last; and from every state, the two values of datapoint 115
\* leave the same record and the same private state.
C15_DeviceTotalDiscarded ==
    /\ [][(msg'.type = "datapoint" /\ msg'.dp = DpPowerAb /\ ~gap') =>
            /\ result' = Empty
            /\ priv' = [priv EXCEPT !.last_seq = msg'.seq]
            /\ emitted' = emitted]_vars
    /\ [](Has(result, "power_ab") =>
            /\ msg.dp # DpPowerAb
            /\ emitted["a"] # None /\ emitted["b"] # None
            /\ result["power_ab"] = Val(emitted["a"]) + Val(emitted["b"]))
    /\ [](\A seq \in TrafficTotal.seqs : \A v, w \in TrafficTotal.raw[DpPowerAb] :
            LET p == SeqCheck(priv, seq).priv
            IN  tuyaDatapoints(DpPowerAb, v, p, options, 1)
                  = tuyaDatapoints(DpPowerAb, w, p, options, 1))

C15_Witness ==
    /\ msg.dp = DpPowerAb
    /\ msg.v = 999
    /\ ~gap
    /\ result = Empty
    /\ priv.pub_power["a"] = Some(0)
    /\ priv.pub_power["b"] = Some(0 - 371)
    /\ priv.power["b"] # None
    /\ priv.sign["b"] # None

\* C16: a record holds, of the fields of the channels, none or the five
\* fields power, energy_flow, current, power_factor and timestamp of one
\* channel, none of them null; each value is the canonical one of the zero
\* snapshot, or written by the emitting message, or taken from the buffer
\* by a step that is not a gap; and a gap step leaves nothing in the
\* buffers but what its own message wrote.
C16_RecordAllOrNothing ==
    /\ [](\A x \in Chan :
            RecordOf(x) =>
              /\ \A f \in DOMAIN Keys : Has(result, Key(f, x))
              /\ result[Key("timestamp", x)] # None
              /\ ~RecordOf(Other(x))
              /\ flush.ok /\ flush.x = x)
    /\ [][\A x \in Chan :
            (RecordOf(x)' /\ flush'.ran = "zero") =>
              /\ result'[Key("power", x)] = 0
              /\ result'[Key("current", x)] = 0
              /\ result'[Key("power_factor", x)] = 100
              /\ result'[Key("timestamp", x)] # None]_vars
    /\ [][\A x \in Chan :
            (RecordOf(x)' /\ flush'.ran = "all") =>
              /\ \A f \in BufFields :
                   f # Written(msg'.dp) => (~gap' /\ priv[f][x] # None)
              /\ result'[Key("current", x)] = Val(priv.current[x])
              /\ result'[Key("timestamp", x)] = priv.timestamp[x]
              /\ LET s == IF msg'.dp = DpEnergyFlow[x]
                          THEN (IF msg'.v = 1 THEN -1 ELSE 1) ELSE Val(priv.sign[x])
                     pf == IF msg'.dp = DpPowerFactor[x]
                           THEN msg'.v ELSE Val(priv.power_factor[x])
                 IN  /\ ReaderSigned(result', x) = s * Val(priv.power[x])
                     /\ result'[Key("power_factor", x)] = pf]_vars
    /\ []((IsDatapoint /\ gap) =>
            \A y \in Chan : \A f \in BufFields :
                priv[f][y] # None => (y = MsgChan /\ f = Written(msg.dp)))

C16_Witness ==
    /\ msg.dp = DpPowerFactor.b
    /\ ~gap
    /\ flush = [ran |-> "all", x |-> "b", ok |-> TRUE]
    /\ RecordOf("b")
    /\ ~RecordOf("a")
    /\ result["power_b"] = 371
    /\ result["current_b"] = 1500
    /\ result["timestamp_b"] = Some(1)
    /\ priv.power["a"] # None
    /\ priv.current["a"] # None

\* the zero power reading of channel x that is the n-th of its run (c
\* counts the run) is nullified when it is the first, and emits the
\* canonical zero snapshot when it is a later one
ZeroRunRule(c) ==
    (/\ IsDatapoint
     /\ MsgField = "power"
     /\ msg.v = 0
     /\ options.single_zero_remove)
    => LET x == MsgChan
       IN  /\ c[x] = 1 =>
                 /\ flush = [ran |-> "null", x |-> x, ok |-> FALSE]
                 /\ result = Empty
                 /\ AllEmpty(priv, x)
           /\ c[x] = 2 =>
                 /\ flush = [ran |-> "zero", x |-> x, ok |-> TRUE]
                 /\ result[Key("power", x)] = 0
                 /\ result[Key("current", x)] = 0
                 /\ result[Key("power_factor", x)] = 100
                 /\ result[Key("energy_flow", x)] = "consuming"

\* C17 as stated: with single_zero_remove on, in a run of zero power
\* readings of channel x with no non-zero power reading of x in between,
\* the first is nullified and every later one emits the zero snapshot.
C17_OnlyFirstZeroOfRunNullified == ZeroRunRule(obs.run)

\* C17 amended: the same, for a run in which no message after the first
\* reading, the readings included, is taken for a gap; the zero reading
\* that follows a gap is nullified like the first of a run.
C17_OnlyFirstZeroSinceGapNullified == ZeroRunRule(obs.clean)

C17_Witness ==
    /\ msg.dp = DpPower.a
    /\ msg.v = 0
    /\ options.single_zero_remove
    /\ ~gap
    /\ obs.clean["a"] = 2
    /\ flush.ran = "zero"
    /\ result["power_factor_a"] = 100

\* C19: in v1, a flush attempt on channel x that finds one of the four
\* fields missing emits none of the four under keep_all, the fields that
\* are there with their buffered values under keep_missing, all four as
\* they are (the missing ones null) under nullify_missing and all four
\* null under nullify_all.  The buffer the attempt finds is the one before
\* the message, emptied if the message is taken for a gap, with the
\* message's own field written.
C19_MissingDataBehavior ==
    [][\A x \in Chan :
         LET B(f) == IF Field(msg'.dp) = f
                     THEN Some(IF f = "energy_flow" THEN Flow(msg'.v) ELSE msg'.v)
                     ELSE IF gap' THEN None ELSE priv[f][x]
             mdb == options.missing_data_behavior
         IN  (FlushAttemptV1(x)' /\ \E f \in Fields : B(f) = None) =>
               /\ mdb = "keep_all" =>
                     \A f \in Fields : ~Has(result', Key(f, x))
               /\ mdb = "keep_missing" =>
                     \A f \in Fields :
                        IF B(f) = None THEN ~Has(result', Key(f, x))
                        ELSE Has(result', Key(f, x)) /\ result'[Key(f, x)] = B(f)
               /\ mdb = "nullify_missing" =>
                     \A f \in Fields :
                        Has(result', Key(f, x)) /\ result'[Key(f, x)] = B(f)
               /\ mdb = "nullify_all" =>
                     \A f \in Fields :
                        Has(result', Key(f, x)) /\ result'[Key(f, x)] = None]_vars

C19_Witness ==
    /\ options.missing_data_behavior = "nullify_missing"
    /\ FlushAttemptV1("a")
    /\ msg.dp = DpPowerFactor.a
    /\ ~gap
    /\ ~flush.ok
    /\ result["power_a"] = Some(798)
    /\ result["power_factor_a"] = Some(87)
    /\ result["current_a"] = None
    /\ result["energy_flow_a"] = None

C21_CounterSixteenBits ==
    /\ [](\A x \in Chan :
            /\ priv.counter[x] \in 0..65535
            /\ Has(result, CounterKey[x]) => result[CounterKey[x]] \in 0..65535)
    /\ [][\A x \in Chan :
            (priv.counter[x] = 65535 /\ priv'.counter[x] # 65535) =>
                /\ priv'.counter[x] = 0
                /\ result'[CounterKey[x]] = 0]_vars
    /\ [][\A x \in Chan :
            (priv.counter[x] = 65535 /\ UpdateV1(x)') => priv'.counter[x] = 0]_vars

C21_Witness ==
    /\ prev.seq = 0
    /\ priv.counter["a"] = 0
    /\ UpdateV1("a")
    /\ flush.ok
    /\ result["counter_a"] = 0
    /\ result["power_factor_a"] = Some(87)

\* C22: in v1 with publishing_mode immediate, missing_data_behavior has no
\* effect: whatever state the device is in, a message leaves the same
\* device state and the same record under each of the four values, so two
\* runs that differ in missing_data_behavior only stay in step.
C22_ImmediateIgnoresMissingData ==
    \A m \in MessagesOf(TrafficImmediate) : \A b \in {o.missing_data_behavior : o \in PJ1203A_options} :
        HandledV1(m, priv, [options EXCEPT !.missing_data_behavior = b]) = HandledV1(m, priv, options)

C22_Witness ==
    /\ options.publishing_mode = "immediate"
    /\ options.missing_data_behavior = "nullify_all"
    /\ msg.dp = DpCurrent.a
    /\ msg.v = 0
    /\ flush.ran = "zero"
    /\ result["energy_flow_a"] = Some("consuming")
    /\ result["power_factor_a"] = Some(100)
    /\ result["current_a"] = Some(0)
    /\ priv.power["a"] = Some(0)

\* C24: in v2, while the user has the energy-flow-quirk option on, a
\* power_factor_x message does not flush channel x (it emits nothing and
\* keeps what is collected), and the energy_flow_x message that then finds
\* power, current and power factor collected publishes them.
C24_QwirkDelaysToEnergyFlow ==
    [][\A x \in Chan :
         LET on == options.v2_energy_flow_qwirk
         IN  /\ (on /\ IsDatapoint' /\ msg'.dp = DpPowerFactor[x] /\ ~gap') =>
                   /\ flush'.ran = "none"
                   /\ result' = Empty
                   /\ priv'.power[x] = priv.power[x]
                   /\ priv'.power_factor[x] = Some(msg'.v)
             /\ (/\ on /\ IsDatapoint' /\ msg'.dp = DpEnergyFlow[x] /\ ~gap'
                 /\ priv.power[x] # None /\ priv.current[x] # None
                 /\ priv.power_factor[x] # None) =>
                   /\ Has(result', Key("power", x))
                   /\ result'[Key("current", x)] = Val(priv.current[x])
                   /\ result'[Key("power_factor", x)] = Val(priv.power_factor[x])]_vars

\* C25: in v4, the datapoint handler never raises: whatever the message and
\* the state, it classifies the sequence number against last_seq and the
\* device state's seq_inc and returns a record.
C25_DatapointHandlerReturns ==
    IsDatapoint =>
        /\ ~Has(result, "exception")
        /\ priv.last_seq = msg.seq
        /\ gap = (msg.seq # And0xffff(prev.seq + priv.seq_inc) /\ msg.seq # prev.seq)

\* C26: in v5, a record that carries power_x carries a timestamp_x, and it
\* is the instant of the message that last made the converter write
\* power_x (a power_x datapoint, or a zero current_x for the zero
\* snapshot): the value the record publishes was written then, and never
\* by an earlier message whose value was cleared or overwritten since.
C26_TimestampOfPowerPublished ==
    \A x \in Chan :
        Emits(x) =>
            /\ Has(result, Key("timestamp", x))
            /\ result[Key("timestamp", x)] # None
            /\ result[Key("timestamp", x)] = obs.wrote[x]

C26_Witness ==
    /\ Emits("a")
    /\ msg.dp = DpPowerFactor.a
    /\ result["power_a"] = 798
    /\ result["timestamp_a"] = Some(1)
    /\ priv.timestamp["a"] = Some(1)
    /\ obs.wrote["a"] = Some(1)
    /\ prev.seq = 0 /\ msg.seq = 256 /\ ~gap

\* C27: in v5, pub_power_x and every power_ab are the same whether
\* signed_power_a and signed_power_b are true or false: whatever message
\* of the traffic arrives next, under each of the four settings it leaves
\* the same pub_power_a and pub_power_b (and the same buffers, so that the
\* runs stay in step) and the same power_ab, in the record or not.
C27_PowerAbIgnoresSignedPower ==
    \A m \in MessagesOf(TrafficAB) : \A s \in [Chan -> BOOLEAN] :
        LET p == SeqCheck(priv, m.seq).priv
            here == tuyaDatapoints(m.dp, m.v, p, options, 1)
            there == tuyaDatapoints(m.dp, m.v, p, [options EXCEPT !.signed_power = s], 1)
        IN  /\ there.priv.pub_power = here.priv.pub_power
            /\ there.priv = here.priv
            /\ Has(there.result, "power_ab") = Has(here.result, "power_ab")
            /\ Has(here.result, "power_ab") =>
                  there.result["power_ab"] = here.result["power_ab"]

C27_Witness ==
    /\ options.signed_power["b"]
    /\ ~options.signed_power["a"]
    /\ msg.dp = DpPowerFactor.b
    /\ RecordOf("b")
    /\ result["energy_flow_b"] = "sign"
    /\ result["power_b"] = 0 - 371
    /\ priv.pub_power = [a |-> Some(798), b |-> Some(0 - 371)]
    /\ result["power_ab"] = 427

\* C28: in v5 with late_energy_flow_x off, when energy_flow_x, a non-zero
\* current_x, a non-zero power_x and power_factor_x have arrived in this
\* order as consecutive messages of channel x, messages of the other
\* channel and of no channel in between, none after the first taken for a
\* gap, the power_factor_x step emits the complete record of channel x
\* with exactly these four values.
C28_CycleInOrderEmitsItsValues ==
    \A x \in Chan :
        (IsDatapoint /\ obs.cycle[x].at = 4) =>
            LET c == obs.cycle[x]
                s == IF c.energy_flow = 1 THEN -1 ELSE 1
            IN  /\ msg.dp = DpPowerFactor[x]
                /\ flush = [ran |-> "all", x |-> x, ok |-> TRUE]
                /\ Emits(x)
                /\ result[Key("current", x)] = c.current
                /\ result[Key("power_factor", x)] = c.power_factor
                /\ IF options.signed_power[x]
                   THEN /\ result[Key("power", x)] = s * c.power
                        /\ result[Key("energy_flow", x)] = "sign"
                   ELSE /\ result[Key("power", x)] = c.power
                        /\ result[Key("energy_flow", x)] =
                              (IF s = 1 THEN "consuming" ELSE "producing")

C28_Witness ==
    /\ IsDatapoint
    /\ obs.cycle["a"] = [at |-> 4, energy_flow |-> 1, current |-> 1500,
                         power |-> 371, power_factor |-> 87]
    /\ ~options.signed_power["a"]
    /\ options.late_energy_flow["b"]
    /\ priv.power_factor["b"] = Some(87)
    /\ result["power_a"] = 371
    /\ result["energy_flow_a"] = "producing"
    /\ result["current_a"] = 1500

\* C29 (as claimed): in v5 with late_energy_flow_x on, the non-zero
\* current, power and power factor of channel x delivered with no message
\* taken for a gap are in the record of the next energy_flow_x message.
C29_LateValuesNeverDiscarded ==
    \A x \in Chan :
        (IsDatapoint /\ obs.owed[x] # None) => EmitsOwed(x, Val(obs.owed[x]))

\* C29 (amended): in v5 with late_energy_flow_x on, the non-zero current,
\* power and power factor of channel x delivered with no message taken for
\* a gap and no power or current reading of 0 of channel x after them are
\* in the record of the next energy_flow_x message; a reading of 0 runs
\* the zero shortcut or the one-shot suppression, which discards them.
C29_LateValuesKeptUnlessZero ==
    \A x \in Chan :
        (IsDatapoint /\ obs.due[x] # None) => EmitsOwed(x, Val(obs.due[x]))

C29_Witness ==
    /\ IsDatapoint
    /\ msg.dp = DpEnergyFlow.a
    /\ msg.v = 1
    /\ obs.due["a"] = Some([current |-> Some(1500), power |-> Some(798), power_factor |-> Some(87)])
    /\ options.signed_power["a"]
    /\ result["power_a"] = 0 - 798
    /\ result["current_a"] = 1500
    /\ flush = [ran |-> "all", x |-> "a", ok |-> TRUE]

C23_ImmediateIgnoresDetection ==
    (IsDatapoint /\ obs.twin # None) =>
        /\ Val(obs.twin).result = result
        /\ Val(obs.twin).priv.counter = priv.counter
        /\ Val(obs.twin).priv.pub_power = priv.pub_power
        /\ Val(obs.twin).priv.pub_energy_flow = priv.pub_energy_flow

C23_Witness ==
    /\ IsDatapoint
    /\ obs.twin # None
    /\ gap
    /\ options.power_ab_mode = "recompute"
    /\ msg.dp = DpPower.b
    /\ priv.power_factor["a"] = None
    /\ Val(obs.twin).priv.power_factor["a"] = Some(87)
    /\ Has(result, "power_ab")
    /\ result["power_ab"] = 371 - 798
    /\ Val(obs.twin).result = result

\* C31: in v1, after any flush attempt on channel x (at the trigger field
\* of the publishing mode or at the zero shortcut) energy_flow_x, power_x,
\* current_x and power_factor_x are empty, so a flush attempt on channel x
\* that follows another one emits no value of channel x but the one its
\* own message brought: no buffered value goes into two records.
C31_BufferedValuesUsedOnce ==
    /\ [](flush.ran \in {"all", "zero"} =>
            \A f \in Fields : priv[f][flush.x] = None)
    /\ [][\A x \in Chan :
            (/\ flush.ran \in {"all", "zero"}
             /\ flush.x = x
             /\ FlushAttemptV1(x)'
             /\ ~ZeroReading') =>
                \A f \in Fields \ {Field(msg'.dp)} :
                    Has(result', Key(f, x)) => result'[Key(f, x)] = None]_vars

\* C32: a datapoint message of channel x that is not taken for a gap
\* leaves sign, power, current, power_factor, timestamp, zero_power,
\* zero_current and pub_power of the other channel as they were.
C32_OtherChannelUntouched ==
    [][\A x \in Chan :
         (msg'.type = "datapoint" /\ ChanOf(msg'.dp) = x /\ ~gap') =>
            \A f \in BufFields \cup {"timestamp", "zero_power", "zero_current", "pub_power"} :
                priv'[f][Other(x)] = priv[f][Other(x)]]_vars

C32_Witness ==
    /\ msg.dp = DpPowerFactor.a
    /\ ~gap
    /\ flush = [ran |-> "all", x |-> "a", ok |-> TRUE]
    /\ Has(result, "power_ab")
    /\ priv.sign["b"] = Some(0 - 1)
    /\ priv.power["b"] = Some(371)
    /\ priv.timestamp["b"] = Some(1)
    /\ priv.zero_power["b"] = Some(FALSE)
    /\ priv.pub_power["b"] = Some(0 - 371)

\* C33: pub_power_x, once it holds a value, holds one after every later
\* step (a gap, a zero reading, a sync-time message and a change of the
\* options included); and once both channels have emitted a record, every
\* record that carries power_a or power_b carries power_ab as well.
C33_PubPowerStaysSet ==
    /\ [][\A x \in Chan :
            priv.pub_power[x] # None => priv'.pub_power[x] # None]_vars
    /\ [][(/\ emitted["a"] # None
           /\ emitted["b"] # None
           /\ (Has(result', "power_a") \/ Has(result', "power_b"))) =>
              Has(result', "power_ab")]_vars

C33_Witness ==
    /\ IsDatapoint
    /\ gap
    /\ lost = Chan
    /\ msg.dp = DpPower.a
    /\ msg.v = 0
    /\ Has(result, "power_a")
    /\ Has(result, "power_ab")
    /\ result["power_ab"] = 0 - 371
    /\ priv.pub_power = [a |-> Some(0), b |-> Some(0 - 371)]

\* C34: once a datapoint message has been processed, last_seq lies in
\* 0..65535 after every step, sync-time messages included.
C34_LastSeqInCounterRange ==
    Started => priv.last_seq \in 0..65535

\* C35: after every step the buffered power_x and current_x are empty or
\* other than 0; a record with power_x = 0 is the zero snapshot (current
\* 0, power factor 100, direction forward: consuming, or the label sign in
\* signed mode) emitted by the zero shortcut, never one with the producing
\* direction; and a record with current_x = 0 has power_x = 0.
C35_ZeroOnlyInZeroSnapshot ==
    \A x \in Chan :
        /\ priv.power[x] # Some(0)
        /\ priv.current[x] # Some(0)
        /\ (Emits(x) /\ result[Key("power", x)] = 0) =>
              /\ result[Key("current", x)] = 0
              /\ result[Key("power_factor", x)] = 100
              /\ result[Key("energy_flow", x)] # "producing"
              /\ result[Key("energy_flow", x)] =
                     (IF options.signed_power[x] THEN "sign" ELSE "consuming")
              /\ flush = [ran |-> "zero", x |-> x, ok |-> TRUE]
        /\ (Emits(x) /\ result[Key("current", x)] = 0) =>
              result[Key("power", x)] = 0

C35_Witness ==
    /\ msg.dp = DpPower.a
    /\ msg.v = 0
    /\ options.single_zero_remove
    /\ ~gap
    /\ Emits("a")
    /\ result["power_a"] = 0
    /\ result["current_a"] = 0
    /\ result["energy_flow_a"] = "consuming"
    /\ AllEmpty(priv, "a")
    /\ priv.zero_current["a"] = Some(FALSE)

====
